---- MODULE Spec2Model ----
(***************************************************************************)
(* Model of the checkmk-sdp bridge: the notification ingestion handler     *)
(* (src/src/app/notification.py), the SQLite link store                    *)
(* (src/src/app/database/client.py), the ticket poller                     *)
(* (src/src/app/sdp/client.py) and the reconciliation loop                 *)
(* (src/src/app/coordinator/client.py).                                    *)
(*                                                                         *)
(* Every coroutine is cut at its await points: one action is the code      *)
(* between two awaits together with the store statement or remote call     *)
(* that the await waits for.  Python's None is 0 for integer keys and ""   *)
(* for strings (the code only tests both for truthiness).                  *)
(***************************************************************************)
EXTENDS Integers, Sequences, FiniteSets, TLC

\* ---------------------------------------------------------------- bounds
NumHandlers == 2
MaxTickets == 2
\* the retry ceiling of the polling loops (self.retries)
Retries == 3
\* the longest run of consecutive failed polls of one task
MaxStreak == 4
\* the number of start() calls on one client
MaxStarts == 2
\* the page size of the ticket id listing (row_count)
RowCount == 1

\* ---------------------------------------------------------------- values
Handlers == 1..NumHandlers

RecoverySentinel == "0"
Kinds == {"service", "host"}
Statuses == {"", "Open", "OPEN", "Closed"}

\* A ServiceNotification carries service_problem_id, a HostNotification
\* host_problem_id; getattr(..., None) yields None ("") for the other one.
Notification(kind, pid, host, state) ==
    [kind |-> kind,
     service_problem_id |-> IF kind = "service" THEN pid ELSE "",
     host_problem_id |-> IF kind = "host" THEN pid ELSE "",
     host_name |-> host,
     service_check_command |-> IF kind = "service" THEN "check_http" ELSE "",
     service_desc |-> IF kind = "service" THEN "HTTP" ELSE "",
     state |-> state]

\* The notifications of the model: a service problem of web01 in two states
\* (a redelivery with updated fields), a host problem that carries no host
\* name (NOTIFY_HOSTNAME is optional), and a recovery of either kind.
Notifications ==
    {Notification("service", "1234", "web01", "CRIT"),
     Notification("service", "1234", "web01", "WARN"),
     Notification("host", "1234", "", "DOWN")}
    \cup {Notification(k, RecoverySentinel, "web01", "UP") : k \in Kinds}

NoPayload == Notification("host", "", "", "")

\* Python's `a or b` on optional strings.
PyOr(a, b) == IF a # "" THEN a ELSE b

\* str.lower() on the status names of the model.
Lower(s) == IF s \in {"Open", "open", "OPEN"} THEN "open"
            ELSE IF s = "Closed" THEN "closed" ELSE s

\* ---------------------------------------------------------------- state
VARIABLES
    t_checkmk_problems,       \* alert table, index = internal id
    t_servicedesk_requests,   \* ticket table, index = internal id
    t_problem_request_links,  \* link table, in insertion order
    sdp_tickets,              \* tickets in the ticket system: problem id each was created for
    sdp_requests,             \* SDP.requests, the polled in-memory ticket list
    cmk_hosts,                \* Checkmk.hosts, the polled in-memory host list
    cmk_services,             \* Checkmk.services, the polled in-memory service list
    pc,                       \* position of each ingestion handler
    payload,                  \* checkmk_payload of each handler
    cmk_db_id,                \* handler local
    sdp_request,              \* handler local: id of the created ticket (0: none)
    sdp_db_id,                \* handler local
    sdp_answer,               \* what the ticket system answered to the handler's
                              \* creation call ("": no call was made)
    done,                     \* the request answered last: its problem id and answer,
                              \* and whether one of its store writes failed
    overlap,                  \* two ingest calls were in progress at the same time
    cpc,                      \* position of the reconciliation loop
    pass_list,                \* the list object the running pass iterates
    idx,                      \* index of the pass into pass_list
    checkmk_info,             \* coordinator local: result of get_checkmk_info
    last,                     \* last decision the coordinator logged
    ack_result,               \* the latest acknowledgment: the alert and what Checkmk answered
    acked_at_pass_start,      \* alerts whose flag was persisted before the running pass began
    due,                      \* alerts that were linked, unacknowledged and had a ticket
                              \* polled as not open when the latest pass began
    clean,                    \* no call and no store operation of the latest pass has failed
    poll_tasks,               \* the live polling tasks of each polled resource, each with
                              \* its position in the loop and its loop locals
    starts,                   \* how often start() was called on each client
    session_open,             \* whether the HTTP session of each client (for db: the
                              \* connection pool) is open
    lifespan_pc,              \* position of the application lifespan
    problem_cache,            \* ProblemCache.cache
    cache_rows,               \* refresh_cache local: the rows its query selected
    close_pc                  \* position of close() on each client

store == <<t_checkmk_problems, t_servicedesk_requests, t_problem_request_links>>
handler_vars == <<pc, payload, cmk_db_id, sdp_request, sdp_db_id, sdp_answer, done,
                  overlap>>
coord_vars == <<cpc, pass_list, idx, checkmk_info, last, ack_result, acked_at_pass_start,
               due, clean>>
live == <<cmk_hosts, cmk_services>>
infra == <<poll_tasks, starts, session_open, lifespan_pc, problem_cache, cache_rows,
           close_pc>>
vars == <<store, sdp_tickets, sdp_requests, live, handler_vars, coord_vars, infra>>

\* ---------------------------------------------------------------- responses
\* NotificationResponse(success, message) is answered with HTTP 200; an
\* HTTPException is answered with its status code.
NotificationResponse(success, message) ==
    [status_code |-> 200, success |-> success, message |-> message]

HTTPException(status_code, detail) ==
    [status_code |-> status_code, success |-> FALSE, message |-> detail]

NoResponse == [status_code |-> 0, success |-> FALSE, message |-> ""]

RecoveryIgnored == NotificationResponse(TRUE, "Recovery notification ignored.")
AlreadyExists == NotificationResponse(TRUE, "Request already exists.")
Created == NotificationResponse(TRUE, "Request successfully created.")
NoCmkDbId == NotificationResponse(FALSE, "No cmk_db_id. Insertion likely failed")
NoSdpDbId == NotificationResponse(FALSE, "No sdp_db_id. Insertion likely failed")

\* ---------------------------------------------------------------- store
\* Identifier under which the notification is recorded (the problem_id column).
ProblemId(p) == IF p.kind = "service" THEN p.service_problem_id ELSE p.host_problem_id

RowsWith(tbl, field, v) == {k \in 1..Len(tbl) : tbl[k][field] = v}

AlertRow(p) ==
    [problem_id |-> ProblemId(p),
     host_name |-> p.host_name,
     service_check_command |-> p.service_check_command,
     service_description |-> p.service_desc,
     type |-> p.kind,
     state |-> p.state,
     raw_payload |-> p,
     acknowledged |-> 0]

\* INSERT OR REPLACE: the row of a known problem id is written anew.
ReplaceProblemTable(tbl, p) ==
    LET hit == RowsWith(tbl, "problem_id", ProblemId(p))
    IN  IF hit # {}
        THEN LET k == CHOOSE k \in hit : TRUE
             IN  [tbl EXCEPT ![k] = AlertRow(p)]
        ELSE Append(tbl, AlertRow(p))

\* INSERT ... ON CONFLICT(problem_id) DO UPDATE SET state = excluded.state,
\* updated_at = datetime('now') RETURNING id: the conflict branch writes the
\* state column only; raw_payload (model_dump_json of the notification) and
\* the other columns keep what the first insert wrote.
UpsertProblemTable(tbl, p) ==
    LET hit == RowsWith(tbl, "problem_id", ProblemId(p))
    IN  IF hit # {}
        THEN LET k == CHOOSE k \in hit : TRUE
             IN  [tbl EXCEPT ![k].state = p.state]
        ELSE Append(tbl, AlertRow(p))

UpsertProblemId(tbl, p) ==
    LET hit == RowsWith(tbl, "problem_id", ProblemId(p))
    IN  IF hit # {} THEN CHOOSE k \in hit : TRUE ELSE Len(tbl) + 1

\* INSERT ... ON CONFLICT(request_id) DO UPDATE SET status = excluded.status RETURNING id
UpsertRequestTable(tbl, request_id, status) ==
    LET hit == RowsWith(tbl, "request_id", request_id)
    IN  IF hit # {}
        THEN LET k == CHOOSE k \in hit : TRUE
             IN  [tbl EXCEPT ![k].status = status]
        ELSE Append(tbl, [request_id |-> request_id, status |-> status])

UpsertRequestId(tbl, request_id) ==
    LET hit == RowsWith(tbl, "request_id", request_id)
    IN  IF hit # {} THEN CHOOSE k \in hit : TRUE ELSE Len(tbl) + 1

\* The link table's schema: foreign keys to both tables and no uniqueness
\* constraint, so an INSERT of a second link for an alert is accepted.
LinkInsertRejected(tbl, alert_id, request_id) == FALSE

\* SELECT request_id FROM t_problem_request_links WHERE alert_id = ?
LinkedRequests(tbl, alert_id) ==
    {tbl[k].request_id : k \in RowsWith(tbl, "alert_id", alert_id)}


\* ---------------------------------------------------------------- ingestion
\* A test that looks at service_problem_id only.
is_recovery_service_only(p) == p.service_problem_id = RecoverySentinel

\* is_recovery_notification: service_problem_id or host_problem_id, compared to "0".
is_recovery_notification(p) ==
    PyOr(p.service_problem_id, p.host_problem_id) = RecoverySentinel

\* A handler that does not test the returned key.
HasKeyUnchecked(id) == TRUE

\* `if not cmk_db_id`, `if not sdp_db_id`
HasKey(id) == id # 0

InProgress(i) == pc[i] # "idle"

\* The handler returns or raises: its locals are gone; `done` keeps the
\* answer and what the request did until the next answer (seq alternates).
Answer(p, resp, write_failed, answer) ==
    [seq |-> 1 - done.seq, problem_id |-> ProblemId(p), response |-> resp,
     write_failed |-> write_failed, sdp_answer |-> answer]

FinishWith(i, p, resp, write_failed, answer) ==
    /\ pc' = [pc EXCEPT ![i] = "idle"]
    /\ done' = Answer(p, resp, write_failed, answer)
    /\ payload' = [payload EXCEPT ![i] = NoPayload]
    /\ cmk_db_id' = [cmk_db_id EXCEPT ![i] = 0]
    /\ sdp_request' = [sdp_request EXCEPT ![i] = 0]
    /\ sdp_db_id' = [sdp_db_id EXCEPT ![i] = 0]
    /\ sdp_answer' = [sdp_answer EXCEPT ![i] = ""]

Finish(i, p, resp, write_failed) == FinishWith(i, p, resp, write_failed, sdp_answer[i])

\* DB.insert_checkmk_problem: the key of the upserted row ("ok"), None when
\* the statement returns no row ("norow"); "raise" is CheckmkDBInsertionError.
insert_checkmk_problem_id(tbl, p, outcome) ==
    IF outcome = "ok" THEN UpsertProblemId(tbl, p) ELSE 0

insert_checkmk_problem_table(tbl, p, outcome) ==
    IF outcome = "ok" THEN UpsertProblemTable(tbl, p) ELSE tbl

\* POST /notify/service, /notify/host: handle_notification_request up to the
\* return of insert_checkmk_problem.
Notify(i, p, outcome) ==
    /\ pc[i] = "idle"
    /\ overlap' = (overlap \/ \E j \in Handlers \ {i} : InProgress(j))
    /\ IF is_recovery_notification(p)
       THEN /\ Finish(i, p, RecoveryIgnored, FALSE)
            /\ UNCHANGED t_checkmk_problems
       ELSE LET key == insert_checkmk_problem_id(t_checkmk_problems, p, outcome)
            IN  /\ t_checkmk_problems' =
                     insert_checkmk_problem_table(t_checkmk_problems, p, outcome)
                /\ IF outcome = "raise"
                   THEN Finish(i, p, HTTPException(400,
                          "Database insertion error for problem tracking. Problem might already exist."),
                          TRUE)
                   ELSE IF ~HasKey(key)
                   THEN Finish(i, p, NoCmkDbId, TRUE)
                   ELSE /\ pc' = [pc EXCEPT ![i] = "check"]
                        /\ payload' = [payload EXCEPT ![i] = p]
                        /\ cmk_db_id' = [cmk_db_id EXCEPT ![i] = key]
                        /\ UNCHANGED <<done, sdp_request, sdp_db_id, sdp_answer>>
    /\ UNCHANGED <<infra, t_servicedesk_requests, t_problem_request_links, sdp_tickets,
                   sdp_requests, live, coord_vars>>

\* DB.check_if_request_exists: the linked request id, None when there is no
\* link and also when the query raises (the exception is logged, not raised).
\* A handler that asked DB.check_if_problem_exists, the lookup in the
\* problem cache, instead of the link table.
check_if_problem_cached(tbl, alert_id, ok) ==
    IF \E n \in 1..Len(problem_cache) :
          problem_cache[n].checkmk_problem_id = 1234
    THEN 1
    ELSE 0

check_if_request_exists(tbl, alert_id, ok) ==
    IF ok /\ LinkedRequests(tbl, alert_id) # {}
    THEN CHOOSE r \in LinkedRequests(tbl, alert_id) :
           \A q \in LinkedRequests(tbl, alert_id) : r <= q
    ELSE 0

\* `existing_request_id = await db.check_if_request_exists(cmk_db_id)`
CheckExists(i, ok) ==
    /\ pc[i] = "check"
    /\ IF check_if_request_exists(t_problem_request_links, cmk_db_id[i], ok) # 0
       THEN Finish(i, payload[i], AlreadyExists, FALSE)
       ELSE /\ pc' = [pc EXCEPT ![i] = "create"]
            /\ UNCHANGED <<done, payload, cmk_db_id, sdp_request, sdp_db_id, sdp_answer>>
    /\ UNCHANGED <<infra, store, sdp_tickets, sdp_requests, live, overlap, coord_vars>>

\* What the creation call can meet.  "created": the ticket system creates the
\* ticket and answers 201 with it; "rejected": it answers with a non-success
\* status and a body without a "request" object; "rejected_with_request": a
\* non-success status whose body holds a request object; "unreachable": the
\* connection fails or times out; "invalid": the request model does not
\* validate, nothing is sent.
SdpAnswers == {"created", "rejected", "rejected_with_request", "unreachable", "invalid"}

\* Wrapper._parse_response: success = status_code in {200, 201, 204}; an
\* answer of any other status is returned as ResponseDetails(success=False),
\* not raised.
ResponseSuccess(answer) == answer = "created"

\* Whether response_body holds a "request" object.
BodyHasRequest(answer) == answer \in {"created", "rejected_with_request"}

\* The exception SDP.create_request raises ("": it returns the response).
\* _build_request_model raises SDPInvalidRequestDataError; _send_request
\* re-raises BadResponseError and SDPUnreachableError and turns every other
\* exception of _make_api_call, a connection error or timeout included, into
\* SDPRequestCreationError.
create_request_raises(answer) ==
    IF answer = "invalid" THEN "SDPInvalidRequestDataError"
    ELSE IF answer = "unreachable" THEN "SDPRequestCreationError"
    ELSE ""

\* create_sdp_request: the except clauses in their order.
CreationError(exc) ==
    IF exc = "SDPInvalidRequestDataError" THEN HTTPException(422, "Invalid request data.")
    ELSE IF exc = "SDPBadResponseError" THEN HTTPException(502, "")
    ELSE IF exc = "SDPUnreachableError" THEN HTTPException(503, "SDP is unreachable.")
    ELSE IF exc = "SDPRequestCreationError"
    THEN HTTPException(500, "Internal error during request creation.")
    ELSE HTTPException(500, "Unexpected error during request creation.")

\* parse_sdp_response: the id of the request object of the body, 0 when the
\* body has none (HTTPException 500 "Malformed response from SDP.").  The
\* request object of a non-success answer names no ticket of the system.
parse_sdp_response(answer, new_id) ==
    IF ~BodyHasRequest(answer) THEN 0
    ELSE IF answer = "created" THEN new_id
    ELSE MaxTickets + 1

\* `sdp_request = await create_sdp_request(...)`: SDP.create_request, the
\* mapping of its exceptions and parse_sdp_response(result.response_body);
\* result.success is not looked at.  The model stops creating tickets at
\* MaxTickets and taking request objects of failed answers at MaxTickets links.
CreateRequest(i, answer) ==
    /\ pc[i] = "create"
    /\ answer = "created" => Len(sdp_tickets) < MaxTickets
    /\ answer = "rejected_with_request" => Len(t_problem_request_links) < MaxTickets
    /\ sdp_tickets' = IF answer = "created"
                      THEN Append(sdp_tickets, ProblemId(payload[i]))
                      ELSE sdp_tickets
    /\ LET exc == create_request_raises(answer)
           id == parse_sdp_response(answer, Len(sdp_tickets) + 1)
       IN  IF exc # ""
           THEN FinishWith(i, payload[i], CreationError(exc), FALSE, answer)
           ELSE IF id = 0
           THEN FinishWith(i, payload[i],
                           HTTPException(500, "Malformed response from SDP."), FALSE, answer)
           ELSE /\ sdp_request' = [sdp_request EXCEPT ![i] = id]
                /\ sdp_answer' = [sdp_answer EXCEPT ![i] = answer]
                /\ pc' = [pc EXCEPT ![i] = "insert_request"]
                /\ UNCHANGED <<done, payload, cmk_db_id, sdp_db_id>>
    /\ UNCHANGED <<infra, store, sdp_requests, live, overlap, coord_vars>>

\* DB.insert_request: the row id, None when the statement raises (logged only).
insert_request_id(tbl, request_id, ok) ==
    IF ok THEN UpsertRequestId(tbl, request_id) ELSE 0

\* An insert whose row is not persisted.
insert_request_lost(tbl, request_id, status, ok) == tbl

insert_request_table(tbl, request_id, status, ok) ==
    IF ok THEN UpsertRequestTable(tbl, request_id, status) ELSE tbl

\* `sdp_db_id = await db.insert_request(sdp_request.id, sdp_request.status.name)`;
\* a ticket is created with ticket_status "Open".
InsertRequest(i, ok) ==
    /\ pc[i] = "insert_request"
    /\ LET id == insert_request_id(t_servicedesk_requests, sdp_request[i], ok)
       IN  /\ t_servicedesk_requests' =
                insert_request_table(t_servicedesk_requests, sdp_request[i], "Open", ok)
           /\ IF ~HasKey(id)
              THEN Finish(i, payload[i], NoSdpDbId, TRUE)
              ELSE /\ pc' = [pc EXCEPT ![i] = "link"]
                   /\ sdp_db_id' = [sdp_db_id EXCEPT ![i] = id]
                   /\ UNCHANGED <<done, payload, cmk_db_id, sdp_request, sdp_answer>>
    /\ UNCHANGED <<infra, t_checkmk_problems, t_problem_request_links, sdp_tickets, sdp_requests, live,
                   overlap, coord_vars>>

\* DB.link_problem_and_request: a plain INSERT; any exception of the
\* statement is logged inside the method and not raised to the caller.
LinkWritten(tbl, alert_id, request_id, ok) ==
    ok /\ ~LinkInsertRejected(tbl, alert_id, request_id)

link_problem_and_request_table(tbl, alert_id, request_id, ok) ==
    IF LinkWritten(tbl, alert_id, request_id, ok)
    THEN Append(tbl, [alert_id |-> alert_id, request_id |-> request_id])
    ELSE tbl

\* Whether the call raises to handle_notification_request.
link_problem_and_request_raises(tbl, alert_id, request_id, ok) == FALSE

\* `await db.link_problem_and_request(cmk_db_id, sdp_db_id)` and the return.
LinkProblem(i, ok) ==
    /\ pc[i] = "link"
    /\ t_problem_request_links' =
         link_problem_and_request_table(t_problem_request_links, cmk_db_id[i],
                                        sdp_db_id[i], ok)
    /\ LET failed == ~LinkWritten(t_problem_request_links, cmk_db_id[i], sdp_db_id[i], ok)
       IN  IF link_problem_and_request_raises(t_problem_request_links, cmk_db_id[i],
                                              sdp_db_id[i], ok)
           THEN Finish(i, payload[i], HTTPException(500,
                  "Failed to link problem with request in the database."), failed)
           ELSE Finish(i, payload[i], Created, failed)
    /\ UNCHANGED <<infra, t_checkmk_problems, t_servicedesk_requests, sdp_tickets, sdp_requests, live,
                   overlap, coord_vars>>

\* ---------------------------------------------------------------- ticket poller
Ticket(id, status) == [id |-> id, status |-> status]

\* What the ticket system can report for ticket t: a ticket of the bridge
\* with any status; a ticket somebody else opened (created for no problem
\* id) as closed and without an id (Request.id is Optional).
Reported(t) ==
    IF sdp_tickets[t] # ""
    THEN {Ticket(t, s) : s \in Statuses}
    ELSE {Ticket(0, "Closed")}

\* The lists a poll returns when each of its calls succeeds: every ticket
\* once, sorted by last_updated_time descending, which the model takes as
\* newest first.
PolledLists ==
    {l \in [1..Len(sdp_tickets) -> UNION {Reported(t) : t \in 1..Len(sdp_tickets)}] :
        \A k \in DOMAIN l : l[k] \in Reported(Len(sdp_tickets) + 1 - k)}

\* SDP.poll_requests_periodically, the successful branch: `self.requests = requests`.
\* An empty or failed poll leaves self.requests as it is.
\* A poller that replaced the contents of the list object (`self.requests[:]
\* = requests`) instead of binding a new list: a running pass iterates the
\* same object and sees the new contents.
PollRequestsInPlace(l) ==
    /\ Len(sdp_tickets) > 0
    /\ sdp_requests' = l
    /\ sdp_requests' # sdp_requests
    /\ pass_list' = IF cpc # "sleep" THEN l ELSE pass_list
    /\ UNCHANGED <<infra, store, sdp_tickets, live, handler_vars, cpc, idx, checkmk_info,
                   last, ack_result, acked_at_pass_start, due, clean>>

PollRequests(l) ==
    /\ Len(sdp_tickets) > 0
    /\ sdp_requests' = l
    /\ sdp_requests' # sdp_requests
    /\ UNCHANGED <<infra, store, sdp_tickets, live, handler_vars, coord_vars>>

\* ---------------------------------------------------------------- Checkmk pollers
\* The fields of HostExtensions and ServiceExtensions the bridge reads;
\* state 0 is UP for a host and OK for a service.
Host(name, state) == [name |-> name, state |-> state]

Service(host, description, check_command, state) ==
    [host_name |-> host, description |-> description, check_command |-> check_command,
     state |-> state]

\* What Checkmk can report: web01 up or down; its service HTTP (check command
\* check_http) OK or CRIT, alone or after a service of db01 whose check
\* command is called "HTTP".
LiveHosts == {<<Host("web01", st)>> : st \in {0, 1}}

LiveServices ==
    {<<Service("web01", "HTTP", "check_http", st)>> : st \in {0, 2}}
    \cup {<<Service("db01", "Web", "HTTP", 0), Service("web01", "HTTP", "check_http", 2)>>}

\* Checkmk.poll_hosts_periodically, the successful branch: `self.hosts = hosts`.
\* An empty or failed poll leaves self.hosts as it is.
PollHosts(h) ==
    /\ cmk_hosts' = h
    /\ cmk_hosts' # cmk_hosts
    /\ UNCHANGED <<infra, store, sdp_tickets, sdp_requests, cmk_services, handler_vars, coord_vars>>

\* Checkmk.poll_services_periodically, the successful branch.
PollServices(sv) ==
    /\ cmk_services' = sv
    /\ cmk_services' # cmk_services
    /\ UNCHANGED <<infra, store, sdp_tickets, sdp_requests, cmk_hosts, handler_vars, coord_vars>>

\* ---------------------------------------------------------------- reconciliation
NoInfo == [id |-> 0, host_name |-> "", service_check_command |-> "",
           service_description |-> "", acknowledged |-> 0]

Log(k, ev) == [k |-> k, ev |-> ev]

\* The comparison without lower().
IsOpenOrAbsentExact(status_name) == status_name = "" \/ status_name = "open"

\* `not status_name or status_name.lower() == "open"`
IsOpenOrAbsent(status_name) == status_name = "" \/ Lower(status_name) = "open"

\* Rows of the join of get_checkmk_info for a ticket id, as link indices.
JoinRows(request_id) ==
    {l \in 1..Len(t_problem_request_links) :
        /\ t_problem_request_links[l].request_id \in
             RowsWith(t_servicedesk_requests, "request_id", request_id)
        /\ t_problem_request_links[l].alert_id \in 1..Len(t_checkmk_problems)}

\* DB.get_checkmk_info: fetchone() of the join, None (NoInfo) without a row.
\* A lookup that read the alert table without the join over the link and
\* ticket tables: it answers for a ticket that has no row and no link.
get_checkmk_info_unjoined(request_id) ==
    IF t_checkmk_problems = <<>>
    THEN NoInfo
    ELSE LET p == t_checkmk_problems[1]
         IN  [id |-> 1, host_name |-> p.host_name,
              service_check_command |-> p.service_check_command,
              service_description |-> p.service_description,
              acknowledged |-> p.acknowledged]

get_checkmk_info(request_id) ==
    IF JoinRows(request_id) = {}
    THEN NoInfo
    ELSE LET l == CHOOSE l \in JoinRows(request_id) :
                    \A m \in JoinRows(request_id) : l <= m
             a == t_problem_request_links[l].alert_id
             p == t_checkmk_problems[a]
         IN  [id |-> a, host_name |-> p.host_name,
              service_check_command |-> p.service_check_command,
              service_description |-> p.service_description,
              acknowledged |-> p.acknowledged]

\* A pass that does not look at the flag.
NeverAcknowledged(info) == FALSE

\* `if checkmk_info.acknowledged == 1`
AlreadyAcknowledged(info) == info.acknowledged = 1

\* `if response`, without `.success`.
AckAnyResponse(resp) == resp # "none"

\* `if response and response.success`
AckSucceeded(resp) == resp = "ok"

\* An UPDATE that matches no row.
update_no_row(tbl, id) == tbl

\* An UPDATE that flips the flag: SET acknowledged = 1 - acknowledged.
update_checkmk_toggled(tbl, id) ==
    [k \in 1..Len(tbl) |->
        IF k = id THEN [tbl[k] EXCEPT !.acknowledged = 1 - tbl[k].acknowledged] ELSE tbl[k]]

\* UPDATE t_checkmk_problems SET acknowledged = 1 WHERE id = ?
update_checkmk_acknowledged(tbl, id) ==
    [k \in 1..Len(tbl) |-> IF k = id THEN [tbl[k] EXCEPT !.acknowledged = 1] ELSE tbl[k]]

Acknowledged == {a \in 1..Len(t_checkmk_problems) : t_checkmk_problems[a].acknowledged = 1}

\* The alerts the store links to the ticket with this remote id.
LinkedAlerts(ticket_id) ==
    {a \in 1..Len(t_checkmk_problems) :
        \E r \in 1..Len(t_servicedesk_requests), l \in 1..Len(t_problem_request_links) :
            /\ ticket_id # 0
            /\ t_servicedesk_requests[r].request_id = ticket_id
            /\ t_problem_request_links[l] = [alert_id |-> a, request_id |-> r]}

\* A status that asks for no action: absent, or "open" in any case.
OpenLike == {"", "Open", "OPEN", "open"}

\* The unacknowledged alerts linked to a ticket of the list that is not open.
Due(list) ==
    {a \in 1..Len(t_checkmk_problems) \ Acknowledged :
        \E k \in DOMAIN list :
            list[k].status \notin OpenLike /\ a \in LinkedAlerts(list[k].id)}

NoAck == [alert |-> 0, result |-> "none", sent |-> FALSE]

\* LogicCoordinator.start: a pass begins, `for request in self.sdp.requests`.
\* A loop that started its passes as detached tasks instead of awaiting
\* each one would begin a pass while the previous one is still under way.
PassMayStartDetached == cpc \in {"sleep", "next"}

\* `await self._process_request_states()` followed by
\* `await asyncio.sleep(self.check_interval)` in the one coordinator task
\* that start_pollers creates: a pass begins only out of the sleep.
PassMayStart == cpc = "sleep"

TickStart ==
    /\ PassMayStart
    /\ cpc' = "next"
    /\ pass_list' = sdp_requests
    /\ idx' = 1
    /\ last' = Log(0, "start")
    /\ acked_at_pass_start' = Acknowledged
    /\ due' = Due(sdp_requests)
    /\ clean' = TRUE
    /\ UNCHANGED <<infra, store, sdp_tickets, sdp_requests, live, handler_vars, checkmk_info,
                   ack_result>>

AtTicket == cpc = "next" /\ idx <= Len(pass_list)

Skip(reason) ==
    /\ idx' = idx + 1
    /\ last' = Log(idx, reason)
    /\ UNCHANGED <<cpc, pass_list, checkmk_info, ack_result, acked_at_pass_start, due,
                   clean>>

\* "no status or status is open"
SkipOpen ==
    /\ AtTicket
    /\ IsOpenOrAbsent(pass_list[idx].status)
    /\ Skip("open")
    /\ UNCHANGED <<infra, store, sdp_tickets, sdp_requests, live, handler_vars>>

\* "no request id"
SkipNoId ==
    /\ AtTicket
    /\ ~IsOpenOrAbsent(pass_list[idx].status)
    /\ pass_list[idx].id = 0
    /\ Skip("noid")
    /\ UNCHANGED <<infra, store, sdp_tickets, sdp_requests, live, handler_vars>>

\* `checkmk_info = await self.db.get_checkmk_info(request.id)` and the two
\* checks that follow; the method re-raises what the query raises, and
\* neither _process_request_states nor start catches it.
GetCheckmkInfo(ok) ==
    /\ AtTicket
    /\ ~IsOpenOrAbsent(pass_list[idx].status)
    /\ pass_list[idx].id # 0
    /\ LET info == get_checkmk_info(pass_list[idx].id)
       IN  IF ~ok
           THEN /\ cpc' = "dead"
                /\ last' = Log(idx, "lookup_raised")
                /\ clean' = FALSE
                /\ UNCHANGED <<pass_list, idx, checkmk_info, ack_result,
                               acked_at_pass_start, due>>
           ELSE IF info = NoInfo
           THEN Skip("noinfo")
           ELSE IF AlreadyAcknowledged(info)
           THEN Skip("already")
           ELSE /\ cpc' = "ack"
                /\ checkmk_info' = info
                /\ last' = Log(idx, "info")
                /\ UNCHANGED <<pass_list, idx, ack_result, acked_at_pass_start, due, clean>>
    /\ UNCHANGED <<infra, store, sdp_tickets, sdp_requests, live, handler_vars>>

\* The index at which a for loop that returns at its first match returns,
\* given the indices that match; 0 when the loop ends without a match.
FirstMatch(hits) ==
    IF hits = {} THEN 0 ELSE CHOOSE k \in hits : \A m \in hits : k <= m

\* Checkmk._check_if_problem_state: for a service acknowledgment the first
\* service of self.services whose check_command equals the payload's
\* service_description (the coordinator passes the alert's service
\* description), for a host acknowledgment the first host of self.hosts with
\* the payload's host name; `state == 0` of the match, None (FALSE) without one.
check_if_problem_state(info) ==
    IF info.service_check_command # ""
    THEN LET k == FirstMatch({j \in DOMAIN cmk_services :
                                cmk_services[j].check_command = info.service_description})
         IN  k # 0 /\ cmk_services[k].state = 0
    ELSE LET k == FirstMatch({j \in DOMAIN cmk_hosts : cmk_hosts[j].name = info.host_name})
         IN  k # 0 /\ cmk_hosts[k].state = 0

\* Checkmk._add_acknowledgement posts the acknowledgment unless
\* _check_if_problem_state is true; the coordinator calls it only for an
\* alert with a host name.
AckSent(info) == info.host_name # "" /\ ~check_if_problem_state(info)

\* The response the coordinator holds: None ("none") without a host name,
\* ResponseDetails(success=True) without a request when the target is found
\* in state 0, else what the request ends in ("ok": a success response,
\* "fail": a non-success response, "raise": an exception).
AckResponse(info, outcome) ==
    IF info.host_name = "" THEN "none"
    ELSE IF check_if_problem_state(info) THEN "ok"
    ELSE outcome

Acknowledge(outcome) ==
    /\ cpc = "ack"
    /\ LET resp == AckResponse(checkmk_info, outcome)
       IN  /\ ack_result' = [alert |-> checkmk_info.id, result |-> resp,
                             sent |-> AckSent(checkmk_info)]
           /\ IF resp # "raise" /\ AckSucceeded(resp)
              THEN /\ cpc' = "mark"
                   /\ last' = Log(idx, "ack_ok")
                   /\ UNCHANGED <<idx, checkmk_info, clean>>
              ELSE /\ cpc' = "next"
                   /\ idx' = idx + 1
                   /\ checkmk_info' = NoInfo
                   /\ last' = Log(idx, IF resp = "raise" THEN "ack_exception"
                                       ELSE "ack_failed")
                   /\ clean' = FALSE
    /\ UNCHANGED <<infra, store, sdp_tickets, sdp_requests, live, handler_vars, pass_list,
                   acked_at_pass_start, due>>

\* The flag update without its try/except: what the statement raises ends the pass.
MarkAcknowledgedUncaught(ok) ==
    /\ cpc = "mark"
    /\ t_checkmk_problems' =
         IF ok THEN update_checkmk_acknowledged(t_checkmk_problems, checkmk_info.id)
         ELSE t_checkmk_problems
    /\ cpc' = IF ok THEN "persist" ELSE "dead"
    /\ last' = Log(idx, IF ok THEN "mark_ok" ELSE "mark_failed")
    /\ clean' = (clean /\ ok)
    /\ UNCHANGED <<infra, t_servicedesk_requests, t_problem_request_links, sdp_tickets,
                   sdp_requests, live, handler_vars, pass_list, idx, checkmk_info, ack_result,
                   acked_at_pass_start, due>>

\* `await self.db.update_checkmk_acknowledged(checkmk_info.id)` in its try/except.
MarkAcknowledged(ok) ==
    /\ cpc = "mark"
    /\ t_checkmk_problems' =
         IF ok THEN update_checkmk_acknowledged(t_checkmk_problems, checkmk_info.id)
         ELSE t_checkmk_problems
    /\ cpc' = "persist"
    /\ last' = Log(idx, IF ok THEN "mark_ok" ELSE "mark_failed")
    /\ clean' = (clean /\ ok)
    /\ UNCHANGED <<infra, t_servicedesk_requests, t_problem_request_links, sdp_tickets,
                   sdp_requests, live, handler_vars, pass_list, idx, checkmk_info, ack_result,
                   acked_at_pass_start, due>>

\* `await self.db.insert_request(request.id, request.status.name)` in its try/except.
PersistStatus(ok) ==
    /\ cpc = "persist"
    /\ t_servicedesk_requests' =
         insert_request_table(t_servicedesk_requests, pass_list[idx].id,
                              pass_list[idx].status, ok)
    /\ cpc' = "next"
    /\ idx' = idx + 1
    /\ checkmk_info' = NoInfo
    /\ last' = Log(idx, IF ok THEN "status_ok" ELSE "status_failed")
    /\ clean' = (clean /\ ok)
    /\ UNCHANGED <<infra, t_checkmk_problems, t_problem_request_links, sdp_tickets,
                   sdp_requests, live, handler_vars, pass_list, ack_result, acked_at_pass_start,
                   due>>

\* The for loop is exhausted: _process_request_states returns (its locals
\* are gone) and start awaits asyncio.sleep(self.check_interval).
TickEnd ==
    /\ cpc = "next"
    /\ idx > Len(pass_list)
    /\ cpc' = "sleep"
    /\ pass_list' = <<>>
    /\ idx' = 1
    /\ acked_at_pass_start' = {}
    /\ UNCHANGED <<infra, store, sdp_tickets, sdp_requests, live, handler_vars, checkmk_info, last,
                   ack_result, due, clean>>

\* ---------------------------------------------------------------- polling loops
\* The polled resources and the client that owns the polling loop of each.
Pollers == {"requests", "hosts", "services", "problems"}
Clients == {"sdp", "checkmk", "db"}

Owner(p) ==
    CASE p = "requests" -> "sdp"
      [] p \in {"hosts", "services"} -> "checkmk"
      [] p = "problems" -> "db"

\* The coroutine a polling task runs: what Task.get_coro().__name__ returns.
CoroName(p) ==
    CASE p = "requests" -> "poll_requests_periodically"
      [] p = "hosts" -> "poll_hosts_periodically"
      [] p = "services" -> "poll_services_periodically"
      [] p = "problems" -> "poll_problemids_periodically"

\* self.timeout of the owning client: the base interval of the loop.
Timeout(p) ==
    CASE p = "requests" -> 20
      [] p \in {"hosts", "services"} -> 30
      [] p = "problems" -> 10

\* A polling task at its first attempt.  retry_interval_seconds exists in
\* the two Checkmk loops only, had_failures in the two others; fails counts
\* the failed polls since the last successful one, and wait is the argument
\* of the latest asyncio.sleep (0: the task has not slept yet).
NewTask(p) ==
    [coro |-> CoroName(p),
     at |-> "poll",
     retry_count |-> 0,
     retry_interval_seconds |-> IF Owner(p) = "checkmk" THEN Timeout(p) ELSE 0,
     had_failures |-> FALSE,
     fails |-> 0,
     wait |-> 0]

\* A loop that left the counter alone at the ceiling.
AtCeilingKept(count) == count

\* `if retry_count >= self.retries: retry_count = 0`
AtCeiling(count) == IF count >= Retries THEN 0 ELSE count

\* The except branch of each loop.
PollFailed(p, t) ==
    CASE p = "requests" ->
            [t EXCEPT !.retry_count = AtCeiling(t.retry_count + 1),
                      !.had_failures = TRUE,
                      !.fails = t.fails + 1]
      [] p \in {"hosts", "services"} ->
            [t EXCEPT !.retry_count = AtCeiling(t.retry_count + 1),
                      !.retry_interval_seconds = t.retry_interval_seconds * 2,
                      !.fails = t.fails + 1]
      [] p = "problems" ->
            \* the branch ends with `retry_count = 0; had_failures = False`
            [t EXCEPT !.retry_count = 0,
                      !.had_failures = FALSE,
                      !.fails = t.fails + 1]

\* The successful poll of each loop; the loop of the cache has no else
\* branch.
PollSucceeded(p, t) ==
    CASE p = "requests" ->
            [t EXCEPT !.retry_count = 0, !.had_failures = FALSE, !.fails = 0]
      [] p \in {"hosts", "services"} ->
            [t EXCEPT !.retry_count = 0,
                      !.retry_interval_seconds = Timeout(p),
                      !.fails = 0]
      [] p = "problems" -> [t EXCEPT !.fails = 0]

\* A loop that gave up at the retry ceiling.
AfterAttemptGivingUp(t) == IF t.fails >= Retries THEN "stopped" ELSE "sleep"

\* Every path through the loop body ends at `await asyncio.sleep(...)`.
AfterAttempt(t) == "sleep"

\* `await asyncio.sleep(self.timeout)`: the argument is the base interval
\* on every path; retry_interval_seconds is computed and never used.
SleepFor(p, t) == Timeout(p)

\* The task goes to sleep after an attempt that left it with locals t.
ToSleep(p, t) == [t EXCEPT !.at = AfterAttempt(t), !.wait = SleepFor(p, t)]

\* What a poll of the resource can return when it returns something.
Polled(p) ==
    CASE p = "requests" -> PolledLists \ {<<>>}
      [] p = "hosts" -> LiveHosts
      [] p = "services" -> LiveServices

\* What one HTTP call of a ticket poll can end in: a success response, a
\* non-success response with an error body, or an exception.
CallOutcomes == {"ok", "nonsuccess", "raise"}

Min(a, b) == IF a <= b THEN a ELSE b

\* The pages of ids a listing of n tickets takes, at least one.
PagesOf(n) == IF n = 0 THEN 1 ELSE (n + RowCount - 1) \div RowCount

\* SDP._fetch_all_request_ids: the number of ids collected, or -1 when a
\* page call raises.  The error body of a non-success page has no
\* "requests" key: `if not requests_data: break` ends the listing with the
\* ids of the pages before it.
fetch_all_request_ids(n, pages) ==
    LET bad == {j \in 1..PagesOf(n) : pages[j] # "ok"}
        first == IF bad = {} THEN PagesOf(n) + 1
                 ELSE CHOOSE j \in bad : \A m \in bad : j <= m
    IN  IF bad # {} /\ pages[first] = "raise"
        THEN -1
        ELSE Min((first - 1) * RowCount, n)

\* SDP.get_all_requests for a ticket system that would list `full`: the
\* returned list, <<>> also for an exception, which the loop treats alike.
\* get_requests_by_id drops the tickets whose call raised; the body of a
\* non-success answer has no "request" key, and the KeyError fails the poll.
get_all_requests(full, pages, fetches) ==
    LET ids == fetch_all_request_ids(Len(full), pages)
    IN  IF ids <= 0 THEN <<>>
        ELSE IF \E j \in 1..ids : fetches[j] = "nonsuccess" THEN <<>>
        ELSE LET kept == {j \in 1..ids : fetches[j] = "ok"}
                 Rank(j) == Cardinality({m \in kept : m <= j})
             IN  [r \in 1..Cardinality(kept) |->
                     full[CHOOSE j \in kept : Rank(j) = r]]

\* The lists the polls of the ticket loop can return.
TicketPolls ==
    {get_all_requests(full, pages, fetches) :
        full \in PolledLists,
        pages \in [1..PagesOf(Len(sdp_tickets)) -> CallOutcomes],
        fetches \in [1..Len(sdp_tickets) -> CallOutcomes]}

\* One attempt of the ticket, host or service loop, task k: the call
\* returns `data`; an exception and an empty list (<<>>) both end in the
\* except branch.  A closed session answers no call.
Poll(p, k, data) ==
    /\ p \in Pollers \ {"problems"}
    /\ k \in DOMAIN poll_tasks[p]
    /\ poll_tasks[p][k].at = "poll"
    /\ data # <<>> => session_open[Owner(p)]
    /\ data = <<>> => poll_tasks[p][k].fails < MaxStreak
    /\ LET t == poll_tasks[p][k]
           t2 == IF data = <<>> THEN PollFailed(p, t) ELSE PollSucceeded(p, t)
       IN  poll_tasks' = [poll_tasks EXCEPT ![p][k] = ToSleep(p, t2)]
    /\ sdp_requests' = IF p = "requests" /\ data # <<>> THEN data ELSE sdp_requests
    /\ cmk_hosts' = IF p = "hosts" /\ data # <<>> THEN data ELSE cmk_hosts
    /\ cmk_services' = IF p = "services" /\ data # <<>> THEN data ELSE cmk_services
    /\ UNCHANGED <<store, sdp_tickets, handler_vars, coord_vars, starts, session_open,
                   lifespan_pc, problem_cache, cache_rows, close_pc>>

\* The sleep of task k is over: the next attempt begins.
WakeUp(p, k) ==
    /\ k \in DOMAIN poll_tasks[p]
    /\ poll_tasks[p][k].at = "sleep"
    /\ poll_tasks' = [poll_tasks EXCEPT ![p][k].at = "poll"]
    /\ UNCHANGED <<store, sdp_tickets, sdp_requests, live, handler_vars, coord_vars,
                   starts, session_open, lifespan_pc, problem_cache, cache_rows, close_pc>>

\* ---------------------------------------------------------------- problem cache
\* int() of a problem id as pydantic coerces it into CombinedRequest, and
\* the str() that ProblemCache.exists applies to it.
ToInt(s) == IF s = "1234" THEN 1234 ELSE 0
ToStr(n) == IF n = 1234 THEN "1234" ELSE "0"

\* CombinedRequest.from_sqlite_row for the joined row of link l.
CombinedRequest(l) ==
    [servicedesk_request_id |-> t_servicedesk_requests[l.request_id].request_id,
     servicedesk_request_state |-> t_servicedesk_requests[l.request_id].status,
     checkmk_problem_id |-> ToInt(t_checkmk_problems[l.alert_id].problem_id),
     checkmk_state |-> t_checkmk_problems[l.alert_id].state,
     checkmk_type |-> t_checkmk_problems[l.alert_id].type]

Joined(l) ==
    /\ l.alert_id \in 1..Len(t_checkmk_problems)
    /\ l.request_id \in 1..Len(t_servicedesk_requests)

\* A SELECT over the alert table alone, without the join: it lists the
\* alerts that have no link as well.
StoreJoinUnlinked ==
    [n \in 1..Len(t_checkmk_problems) |->
        [servicedesk_request_id |-> 0,
         servicedesk_request_state |-> "",
         checkmk_problem_id |-> ToInt(t_checkmk_problems[n].problem_id),
         checkmk_state |-> t_checkmk_problems[n].state,
         checkmk_type |-> t_checkmk_problems[n].type]]

\* The SELECT of refresh_cache: the links joined with their alert and
\* ticket rows.
StoreJoin ==
    LET sel == SelectSeq(t_problem_request_links, Joined)
    IN  [n \in 1..Len(sel) |-> CombinedRequest(sel[n])]

\* ProblemCache.exists(key)
exists(cache, key) ==
    \E n \in 1..Len(cache) : ToStr(cache[n].checkmk_problem_id) = key

\* A refresh that emptied the cache before it filled it again.
CacheWhileFetchingCleared(cache) == <<>>

\* refresh_cache leaves self.cache alone until its one assignment.
CacheWhileFetching(cache) == cache

\* refresh_cache up to `await cursor.execute(...)`, in the cache loop's task
\* k: the query selects the join, or acquiring the cursor or the query
\* fails and the loop's except branch runs.
RefreshQuery(k, ok) ==
    /\ k \in DOMAIN poll_tasks["problems"]
    /\ poll_tasks["problems"][k].at = "poll"
    /\ ~ok => poll_tasks["problems"][k].fails < MaxStreak
    /\ LET t == poll_tasks["problems"][k]
       IN  IF ok
           THEN /\ cache_rows' = StoreJoin
                /\ problem_cache' = CacheWhileFetching(problem_cache)
                /\ poll_tasks' = [poll_tasks EXCEPT !["problems"][k].at = "fetch"]
           ELSE /\ poll_tasks' = [poll_tasks EXCEPT !["problems"][k] =
                                      ToSleep("problems", PollFailed("problems", t))]
                /\ UNCHANGED <<problem_cache, cache_rows>>
    /\ UNCHANGED <<store, sdp_tickets, sdp_requests, live, handler_vars, coord_vars,
                   starts, session_open, lifespan_pc, close_pc>>

\* `rows = await cursor.fetchall()` and, without a further await,
\* `self.cache = [CombinedRequest.from_sqlite_row(row) for row in rows]`:
\* one assignment of the whole list; an exception leaves self.cache alone.
RefreshAssign(k, ok) ==
    /\ k \in DOMAIN poll_tasks["problems"]
    /\ poll_tasks["problems"][k].at = "fetch"
    /\ ~ok => poll_tasks["problems"][k].fails < MaxStreak
    /\ LET t == poll_tasks["problems"][k]
           t2 == IF ok THEN PollSucceeded("problems", t) ELSE PollFailed("problems", t)
       IN  poll_tasks' = [poll_tasks EXCEPT !["problems"][k] = ToSleep("problems", t2)]
    /\ problem_cache' = IF ok THEN cache_rows ELSE problem_cache
    /\ cache_rows' = <<>>
    /\ UNCHANGED <<store, sdp_tickets, sdp_requests, live, handler_vars, coord_vars,
                   starts, session_open, lifespan_pc, close_pc>>

\* ---------------------------------------------------------------- lifespan
\* The coroutine whose name start() looks for before it creates the task of
\* resource p.
LookedFor(p) ==
    CASE p = "requests" -> "poll_services_periodically"
      [] p = "hosts" -> "poll_hosts_periodically"
      [] p = "services" -> "poll_services_periodically"

\* The client's background_tasks: Wrapper.start drops the finished ones (a
\* polling task never finishes), and a client keeps one list for all its
\* loops.
BackgroundTasks(c) ==
    UNION {{poll_tasks[p][k] : k \in {j \in DOMAIN poll_tasks[p] :
                                          poll_tasks[p][j].at # "done"}} :
              p \in {q \in Pollers : Owner(q) = c}}

\* `if not any(t.get_coro().__name__ == "..." for t in self.background_tasks)`
StartsTask(p) == ~\E t \in BackgroundTasks(Owner(p)) : t.coro = LookedFor(p)

WithTask(tasks, p) == [tasks EXCEPT ![p] = Append(tasks[p], NewTask(p))]

\* SDP.start() and Checkmk.start(): a call out of at most `limit`.
StartWrapper(c, limit) ==
    /\ c \in {"sdp", "checkmk"}
    /\ starts[c] < limit
    /\ starts' = [starts EXCEPT ![c] = starts[c] + 1]
    /\ poll_tasks' =
          IF c = "sdp"
          THEN IF StartsTask("requests") THEN WithTask(poll_tasks, "requests")
               ELSE poll_tasks
          ELSE LET first == IF StartsTask("services") THEN WithTask(poll_tasks, "services")
                            ELSE poll_tasks
               IN  IF StartsTask("hosts") THEN WithTask(first, "hosts") ELSE first
    /\ UNCHANGED <<store, sdp_tickets, sdp_requests, live, handler_vars, coord_vars,
                   session_open, lifespan_pc, problem_cache, cache_rows, close_pc>>

\* DB.start(): `await self.create_tables()`, which may raise, then
\* `if self.background_task is None or self.background_task.done()`.
StartDb(ok, limit) ==
    /\ starts["db"] < limit
    /\ starts' = [starts EXCEPT !["db"] = starts["db"] + 1]
    /\ poll_tasks' = IF ok /\ BackgroundTasks("db") = {}
                     THEN WithTask(poll_tasks, "problems")
                     ELSE poll_tasks
    /\ UNCHANGED <<store, sdp_tickets, sdp_requests, live, handler_vars, coord_vars,
                   session_open, lifespan_pc, problem_cache, cache_rows, close_pc>>

\* task.cancel() on every task the client tracks: the task is marked and
\* raises CancelledError at the await it is suspended in.
Cancelled(tasks, c) ==
    [p \in Pollers |->
        IF Owner(p) = c
        THEN [k \in DOMAIN tasks[p] |->
                 IF tasks[p][k].at = "done" THEN tasks[p][k]
                 ELSE [tasks[p][k] EXCEPT !.at = "cancelled"]]
        ELSE tasks[p]]

\* Wrapper.close() and DB.close() up to their first `await task`:
\* `for task in self.background_tasks: task.cancel()` (DB: its one
\* background_task).
CloseCancel(c) ==
    /\ close_pc[c] = "idle"
    /\ close_pc' = [close_pc EXCEPT ![c] = "awaiting"]
    /\ poll_tasks' = Cancelled(poll_tasks, c)
    /\ UNCHANGED <<store, sdp_tickets, sdp_requests, live, handler_vars, coord_vars,
                   starts, session_open, lifespan_pc, problem_cache, cache_rows>>

\* A cancelled task is resumed with CancelledError, which the loop's
\* `except Exception` does not catch (it is a BaseException): the task ends.
TaskCancelled(p, k) ==
    /\ k \in DOMAIN poll_tasks[p]
    /\ poll_tasks[p][k].at = "cancelled"
    /\ poll_tasks' = [poll_tasks EXCEPT ![p][k].at = "done"]
    /\ UNCHANGED <<store, sdp_tickets, sdp_requests, live, handler_vars, coord_vars,
                   starts, session_open, lifespan_pc, problem_cache, cache_rows, close_pc>>

\* A close() that awaited its tasks without suppress(): the CancelledError
\* of the first cancelled task leaves close() before the resource is closed.
AwaitedUnsuppressed(tracked) == IF tracked # {} THEN "raised" ELSE "closed"

\* `with suppress(asyncio.CancelledError): await task` for each tracked
\* task: close() goes on to close its resource.
Awaited(tracked) == "closed"

\* The tasks close() cancelled: the ones it tracks, ended or not.
Tracked(c) ==
    UNION {{<<p, k>> : k \in DOMAIN poll_tasks[p]} : p \in {q \in Pollers : Owner(q) = c}}

\* The rest of close(): every `await task` has returned, and
\* `await self.session.close()` (DB: `await pool.close()`) follows.
CloseResource(c) ==
    /\ close_pc[c] = "awaiting"
    /\ \A t \in Tracked(c) : poll_tasks[t[1]][t[2]].at = "done"
    /\ close_pc' = [close_pc EXCEPT ![c] = Awaited(Tracked(c))]
    /\ session_open' = [session_open EXCEPT ![c] = (close_pc'[c] # "closed")]
    /\ UNCHANGED <<store, sdp_tickets, sdp_requests, live, handler_vars, coord_vars,
                   poll_tasks, starts, lifespan_pc, problem_cache, cache_rows>>

\* The shutdown part of lifespan: `await app.state.sdp.session.close()` in
\* a try/except that only logs.  No task is cancelled before it.
CloseSdpSession(ok) ==
    /\ lifespan_pc = "serving"
    /\ lifespan_pc' = "closing"
    /\ session_open' = [session_open EXCEPT !["sdp"] = IF ok THEN FALSE ELSE @]
    /\ UNCHANGED <<store, sdp_tickets, sdp_requests, live, handler_vars, coord_vars,
                   poll_tasks, starts, problem_cache, cache_rows, close_pc>>

\* `await app.state.checkmk.session.close()`, the last statement of
\* lifespan: the tasks and the storage pool are left as they are.
CloseCheckmkSession(ok) ==
    /\ lifespan_pc = "closing"
    /\ lifespan_pc' = "closed"
    /\ session_open' = [session_open EXCEPT !["checkmk"] = IF ok THEN FALSE ELSE @]
    /\ UNCHANGED <<store, sdp_tickets, sdp_requests, live, handler_vars, coord_vars,
                   poll_tasks, starts, problem_cache, cache_rows, close_pc>>

\* ---------------------------------------------------------------- specification
StoreOutcomes == {"ok", "norow", "raise"}
AckOutcomes == {"ok", "fail", "raise"}

\* The state after construction (lifespan): empty tables (DB.start creates
\* them), SDP.requests = [], every handler idle, the coordinator before its
\* first pass.  `others` are the tickets somebody else opened in the
\* ticket system.
InitWith(others) ==
    /\ t_checkmk_problems = <<>>
    /\ t_servicedesk_requests = <<>>
    /\ t_problem_request_links = <<>>
    /\ sdp_tickets = others
    /\ sdp_requests = <<>>
    /\ cmk_hosts = <<>>
    /\ cmk_services = <<>>
    /\ pc = [i \in Handlers |-> "idle"]
    /\ payload = [i \in Handlers |-> NoPayload]
    /\ cmk_db_id = [i \in Handlers |-> 0]
    /\ sdp_request = [i \in Handlers |-> 0]
    /\ sdp_db_id = [i \in Handlers |-> 0]
    /\ sdp_answer = [i \in Handlers |-> ""]
    /\ done = [seq |-> 0, problem_id |-> "", response |-> NoResponse,
               write_failed |-> FALSE, sdp_answer |-> ""]
    /\ overlap = FALSE
    /\ cpc = "sleep"
    /\ pass_list = <<>>
    /\ idx = 1
    /\ checkmk_info = NoInfo
    /\ last = Log(0, "start")
    /\ ack_result = NoAck
    /\ acked_at_pass_start = {}
    /\ due = {}
    /\ clean = TRUE
    /\ poll_tasks = [p \in Pollers |-> <<>>]
    /\ starts = [c \in Clients |-> 0]
    /\ session_open = [c \in Clients |-> TRUE]
    /\ close_pc = [c \in Clients |-> "idle"]
    /\ lifespan_pc = "serving"
    /\ problem_cache = <<>>
    /\ cache_rows = <<>>

Init == InitWith(<<>>)

\* The ingestion path: concurrent handlers of POST /notify/service and
\* /notify/host.
Ingest(H, answers) ==
    \/ \E i \in H, p \in Notifications, o \in StoreOutcomes : Notify(i, p, o)
    \/ \E i \in H, ok \in BOOLEAN : CheckExists(i, ok)
    \/ \E i \in H, answer \in answers : CreateRequest(i, answer)
    \/ \E i \in H, ok \in BOOLEAN : InsertRequest(i, ok)
    \/ \E i \in H, ok \in BOOLEAN : LinkProblem(i, ok)

\* Two concurrent handlers; the ticket system answers a non-success status
\* without a request object.
Next == Ingest(Handlers, SdpAnswers \ {"rejected_with_request"})

Spec == Init /\ [][Next]_vars

\* One handler and every answer of the ticket system.
CreateNext == Ingest({1}, SdpAnswers)

CreateSpec == Init /\ [][CreateNext]_vars

\* The reconciliation loop with the ticket poller, while one handler
\* ingests notifications; the ticket system holds a ticket of somebody else.
ReconInit == InitWith(<<"">>)

ReconNext ==
    \/ Ingest({1}, {"created", "unreachable"})
    \/ \E l \in PolledLists : PollRequests(l)
    \/ TickStart
    \/ SkipOpen
    \/ SkipNoId
    \/ \E ok \in BOOLEAN : GetCheckmkInfo(ok)
    \/ \E o \in AckOutcomes : Acknowledge(o)
    \/ \E ok \in BOOLEAN : MarkAcknowledged(ok)
    \/ \E ok \in BOOLEAN : PersistStatus(ok)
    \/ TickEnd

ReconSpec == ReconInit /\ [][ReconNext]_vars

\* The acknowledgment path with the Checkmk pollers: a service problem and a
\* host problem of web01 are ingested by one handler, every store operation
\* succeeds, and the live host and service lists change under the loop.
AckNotifications ==
    {Notification("service", "1234", "web01", "CRIT"),
     Notification("host", "1234", "web01", "DOWN")}

AckNext ==
    \/ \E p \in AckNotifications : Notify(1, p, "ok")
    \/ CheckExists(1, TRUE)
    \/ CreateRequest(1, "created")
    \/ InsertRequest(1, TRUE)
    \/ LinkProblem(1, TRUE)
    \/ \E l \in PolledLists : PollRequests(l)
    \/ \E h \in LiveHosts : PollHosts(h)
    \/ \E sv \in LiveServices : PollServices(sv)
    \/ TickStart
    \/ SkipOpen
    \/ GetCheckmkInfo(TRUE)
    \/ \E o \in AckOutcomes : Acknowledge(o)
    \/ MarkAcknowledged(TRUE)
    \/ PersistStatus(TRUE)
    \/ TickEnd

AckSpec == Init /\ [][AckNext]_vars

\* The loop and the ticket poller where the only store operation that can
\* fail is the status write of the loop.  LogicCoordinator.start runs a pass,
\* sleeps check_interval seconds and runs the next one, for ever: the loop
\* always takes its next step.
HealLoop ==
    \/ TickStart
    \/ SkipOpen
    \/ GetCheckmkInfo(TRUE)
    \/ \E o \in AckOutcomes : Acknowledge(o)
    \/ MarkAcknowledged(TRUE)
    \/ \E ok \in BOOLEAN : PersistStatus(ok)
    \/ TickEnd

HealNext ==
    \/ \E p \in Notifications : Notify(1, p, "ok")
    \/ CheckExists(1, TRUE)
    \/ CreateRequest(1, "created")
    \/ InsertRequest(1, TRUE)
    \/ LinkProblem(1, TRUE)
    \/ \E l \in PolledLists : PollRequests(l)
    \/ HealLoop

HealSpec == Init /\ [][HealNext]_vars /\ WF_vars(HealLoop)

\* One list per resource for a poll to return.
PolledOnce(p) == {CHOOSE l \in Polled(p) : TRUE}

\* The polling loops as lifespan starts them: start_pollers calls start()
\* once on each client; every poll may fail or return its list.
PollNext ==
    \/ \E c \in {"sdp", "checkmk"} : StartWrapper(c, 1)
    \/ \E ok \in BOOLEAN : StartDb(ok, 1)
    \/ \E p \in Pollers \ {"problems"} :
          \E data \in PolledOnce(p) \cup {<<>>} : Poll(p, 1, data)
    \/ \E ok \in BOOLEAN : RefreshQuery(1, ok)
    \/ \E ok \in BOOLEAN : RefreshAssign(1, ok)
    \/ \E p \in Pollers : WakeUp(p, 1)

PollSpec == ReconInit /\ [][PollNext]_vars

\* The loops share no variable, so failing runs are followed one loop at a
\* time: a poll of p fails only while no other loop is within a run of
\* failed polls.
OthersHealthy(p) ==
    \A q \in Pollers \ {p} : \A k \in DOMAIN poll_tasks[q] : poll_tasks[q][k].fails = 0

FairPoll(p) ==
    \E data \in PolledOnce(p) \cup {<<>>} :
        /\ data = <<>> => OthersHealthy(p)
        /\ Poll(p, 1, data)

FairRefreshQuery ==
    \E ok \in BOOLEAN : (~ok => OthersHealthy("problems")) /\ RefreshQuery(1, ok)

FairRefreshAssign ==
    \E ok \in BOOLEAN : (~ok => OthersHealthy("problems")) /\ RefreshAssign(1, ok)

PollFairNext ==
    \/ \E c \in {"sdp", "checkmk"} : StartWrapper(c, 1)
    \/ \E ok \in BOOLEAN : StartDb(ok, 1)
    \/ \E p \in Pollers \ {"problems"} : FairPoll(p)
    \/ FairRefreshQuery
    \/ FairRefreshAssign
    \/ \E p \in Pollers : WakeUp(p, 1)

\* The event loop runs every task that is ready: every awaited call
\* returns or raises (the sessions carry a total timeout) and every sleep
\* elapses.
PollFairness ==
    /\ \A p \in Pollers \ {"problems"} : WF_vars(FairPoll(p))
    /\ WF_vars(FairRefreshQuery)
    /\ WF_vars(FairRefreshAssign)
    /\ \A p \in Pollers : WF_vars(WakeUp(p, 1))

PollFairSpec == ReconInit /\ [][PollFairNext]_vars /\ PollFairness

\* start() is called up to MaxStarts times on each client, and the loops
\* poll; every poll returns its list.
StartNext ==
    \/ \E c \in {"sdp", "checkmk"} : StartWrapper(c, MaxStarts)
    \/ \E ok \in BOOLEAN : StartDb(ok, MaxStarts)
    \/ \E p \in Pollers \ {"problems"}, k \in 1..MaxStarts :
          \E data \in PolledOnce(p) : Poll(p, k, data)
    \/ \E k \in 1..MaxStarts : RefreshQuery(k, TRUE)
    \/ \E k \in 1..MaxStarts : RefreshAssign(k, TRUE)
    \/ \E p \in Pollers, k \in 1..MaxStarts : WakeUp(p, k)

StartSpec == ReconInit /\ [][StartNext]_vars

\* The life of the application: lifespan starts each client once, the
\* loops poll, and lifespan shuts down.  A poll returns its list while the
\* session is open and fails once it is closed.
LifeNext ==
    \/ \E c \in {"sdp", "checkmk"} : StartWrapper(c, 1)
    \/ \E ok \in BOOLEAN : StartDb(ok, 1)
    \/ \E p \in Pollers \ {"problems"} :
          \E data \in PolledOnce(p) \cup {<<>>} :
              /\ data = <<>> => ~session_open[Owner(p)]
              /\ Poll(p, 1, data)
    \/ RefreshQuery(1, TRUE)
    \/ RefreshAssign(1, TRUE)
    \/ \E p \in Pollers : WakeUp(p, 1)
    \/ \E ok \in BOOLEAN : CloseSdpSession(ok)
    \/ \E ok \in BOOLEAN : CloseCheckmkSession(ok)

LifeSpec == ReconInit /\ [][LifeNext]_vars

\* The cache loop next to one ingestion handler whose store operations
\* and ticket creation succeed; the link insert may fail.
CacheNext ==
    \/ \E p \in Notifications : Notify(1, p, "ok")
    \/ CheckExists(1, TRUE)
    \/ CreateRequest(1, "created")
    \/ InsertRequest(1, TRUE)
    \/ \E ok \in BOOLEAN : LinkProblem(1, ok)
    \/ \E ok \in BOOLEAN : StartDb(ok, 1)
    \/ \E ok \in BOOLEAN : RefreshQuery(1, ok)
    \/ \E ok \in BOOLEAN : RefreshAssign(1, ok)
    \/ WakeUp("problems", 1)

CacheSpec == Init /\ [][CacheNext]_vars

\* The three list loops with the calls of a ticket poll failing one by
\* one; the ticket system holds two tickets of somebody else.
ListInit == InitWith(<<"", "">>)

ListNext ==
    \/ \E c \in {"sdp", "checkmk"} : StartWrapper(c, 1)
    \/ \E data \in TicketPolls : Poll("requests", 1, data)
    \/ \E p \in {"hosts", "services"} :
          \E data \in Polled(p) \cup {<<>>} : Poll(p, 1, data)
    \/ \E p \in Pollers : WakeUp(p, 1)

ListSpec == ListInit /\ [][ListNext]_vars

\* A client is started, its loops poll, and close() is called on it; no
\* start() is called on a client once its close() has begun.
CloseNext ==
    \/ \E c \in {"sdp", "checkmk"} : close_pc[c] = "idle" /\ StartWrapper(c, MaxStarts)
    \/ \E ok \in BOOLEAN : close_pc["db"] = "idle" /\ StartDb(ok, 1)
    \/ \E p \in Pollers \ {"problems"}, k \in 1..MaxStarts :
          \E data \in PolledOnce(p) : Poll(p, k, data)
    \/ RefreshQuery(1, TRUE)
    \/ RefreshAssign(1, TRUE)
    \/ \E p \in Pollers, k \in 1..MaxStarts : WakeUp(p, k)
    \/ \E c \in Clients : CloseCancel(c)
    \/ \E p \in Pollers, k \in 1..MaxStarts : TaskCancelled(p, k)
    \/ \E c \in Clients : CloseResource(c)

CloseSpec == ReconInit /\ [][CloseNext]_vars

\* ---------------------------------------------------------------- properties
ProblemIds == {ProblemId(p) : p \in Notifications}

\* Tickets the ticket system created for problem id p.
TicketsFor(p) == {t \in 1..Len(sdp_tickets) : sdp_tickets[t] = p}

\* A handler was called and answered within one step: its notification was a
\* recovery, or the alert upsert raised or returned no key.
AnsweredAtOnce == pc' = pc /\ done'.seq # done.seq

\* A step of the reconciliation loop.
CoordStep == coord_vars' # coord_vars

\* The pass is at a ticket that is not open and has an id: the alert lookup is next.
Resolving ==
    /\ AtTicket
    /\ pass_list[idx].status \notin OpenLike
    /\ pass_list[idx].id # 0

FailedResults == {"fail", "raise"}

\* C1 (as claimed): as long as no two ingest calls overlap, the ticket
\* system holds at most one ticket per problem identifier, whatever the
\* outcome of the store writes after ticket creation.
C1_AtMostOneTicket ==
    ~overlap => \A p \in ProblemIds : Cardinality(TicketsFor(p)) <= 1

\* C2 (as claimed): in every reachable state, concurrent ingestions included,
\* the link table holds at most one row per alert key.
C2_AtMostOneLink ==
    \A a \in 1..Len(t_checkmk_problems) :
        Cardinality(RowsWith(t_problem_request_links, "alert_id", a)) <= 1

\* Past the upsert a handler holds the key of the row of its problem id.
C3_KeyHeld ==
    /\ \A i \in Handlers :
          InProgress(i) =>
             /\ cmk_db_id[i] \in 1..Len(t_checkmk_problems)
             /\ t_checkmk_problems[cmk_db_id[i]].problem_id = ProblemId(payload[i])
    /\ \A t \in 1..Len(sdp_tickets) :
          sdp_tickets[t] # "" =>
             RowsWith(t_checkmk_problems, "problem_id", sdp_tickets[t]) # {}

\* An ingest that ends at the upsert fails and produces nothing.
C3_FailedUpsertStep ==
    (AnsweredAtOnce /\ done'.problem_id # RecoverySentinel) =>
        /\ ~done'.response.success
        /\ done'.response.status_code \in {200, 400}
        /\ sdp_tickets' = sdp_tickets
        /\ t_servicedesk_requests' = t_servicedesk_requests
        /\ t_problem_request_links' = t_problem_request_links

\* C3: a handler is past the alert upsert only with the key of the row that
\* records its notification, every ticket was created for a recorded
\* problem, and an ingest whose upsert raised or returned no key answers with
\* a failure and produces no ticket, no ticket row and no link.
C3_DurabilityBeforeSideEffect == []C3_KeyHeld /\ [][C3_FailedUpsertStep]_vars

\* An upsert returned no key while an alert is recorded and no ticket exists.
C3_Witness ==
    /\ done.response = NoCmkDbId
    /\ done.write_failed
    /\ sdp_tickets = <<>>
    /\ t_checkmk_problems # <<>>

\* C4 (as claimed): an ingest one of whose store writes failed never answers
\* with the success outcome "Request successfully created.".
C4_WriteFailureSurfaced == done.write_failed => done.response # Created

\* The sentinel is nowhere past the recovery test.
C5_NoRecoveryInside ==
    /\ \A i \in Handlers : InProgress(i) => ProblemId(payload[i]) # RecoverySentinel
    /\ RowsWith(t_checkmk_problems, "problem_id", RecoverySentinel) = {}
    /\ TicketsFor(RecoverySentinel) = {}
    /\ done.problem_id = RecoverySentinel => done.response = RecoveryIgnored

\* The step that receives a recovery.
C5_RecoveryStep ==
    (AnsweredAtOnce /\ done'.problem_id = RecoverySentinel) =>
        /\ done'.response = RecoveryIgnored
        /\ store' = store
        /\ sdp_tickets' = sdp_tickets

\* C5: a notification whose problem identifier is the sentinel "0" is
\* answered with recoveryIgnored in the step that receives it, that step
\* changes no table and creates no ticket, and the sentinel never gets into a
\* handler past the test, into the alert table or into the ticket system.
C5_RecoveryNoOp == []C5_NoRecoveryInside /\ [][C5_RecoveryStep]_vars

\* A recovery was ignored while a linked ticket exists.
C5_Witness ==
    /\ done.response = RecoveryIgnored
    /\ Len(sdp_tickets) = 1
    /\ Len(t_problem_request_links) = 1

\* C6: when a pass has ended and none of its calls and store operations
\* failed, every alert that was linked, unacknowledged and had a ticket
\* polled as not open when the pass began has its acknowledged flag set.
C6_Convergence == (cpc = "sleep" /\ clean) => due \subseteq Acknowledged

\* A pass without failure that had a due alert has ended.
C6_Witness == cpc = "sleep" /\ clean /\ due # {} /\ last.ev = "noid"

\* The step of a failed acknowledgment call.
C7_FailedAckStep ==
    (cpc = "ack" /\ CoordStep /\ ack_result'.result \in FailedResults) =>
        /\ store' = store
        /\ cpc' = "next"
        /\ idx' = idx + 1
        /\ pass_list' = pass_list

\* The lookup of an alert whose latest acknowledgment failed.
C7_RetryStep ==
    (/\ Resolving
     /\ CoordStep
     /\ cpc' # "dead"
     /\ ack_result.result \in FailedResults
     /\ ack_result.alert \in LinkedAlerts(pass_list[idx].id)) =>
        /\ cpc' = "ack"
        /\ checkmk_info'.id = ack_result.alert

\* After a failed call the alert is unacknowledged.
C7_StillUnacknowledged ==
    ack_result.result \in FailedResults => ack_result.alert \notin Acknowledged

\* C7: a step in which the acknowledgment call raises or returns a
\* non-success response writes nothing to the store and moves the pass to the
\* next ticket of its list; the alert stays unacknowledged; and whenever a
\* pass looks up that alert again for a ticket that is not open, it goes on
\* to a new acknowledgment of it.
C7_FailedAckRetried ==
    []C7_StillUnacknowledged /\ [][C7_FailedAckStep /\ C7_RetryStep]_vars

\* A pass is at the acknowledgment of the alert whose latest call raised.
C7_Witness ==
    /\ cpc = "ack"
    /\ ack_result.result = "raise"
    /\ checkmk_info.id = ack_result.alert

\* C8 (as claimed): no alert lookup, failing or not, terminates the
\* reconciliation loop.
C8_LoopSurvives == cpc # "dead"

\* No acknowledgment step for an open or status-less ticket.
C9_NotForOpen ==
    cpc \in {"ack", "mark", "persist"} => pass_list[idx].status \notin OpenLike

\* The step that skips an open or status-less ticket.
C9_OpenStep ==
    (AtTicket /\ pass_list[idx].status \in OpenLike /\ CoordStep) =>
        /\ store' = store
        /\ ack_result' = ack_result
        /\ cpc' = "next"

\* The lookup for a ticket with a linked, unacknowledged alert.
C9_AttemptStep ==
    (/\ Resolving
     /\ CoordStep
     /\ cpc' # "dead"
     /\ LinkedAlerts(pass_list[idx].id) \ Acknowledged # {}) =>
        /\ cpc' = "ack"
        /\ checkmk_info'.id \in LinkedAlerts(pass_list[idx].id)

\* The acknowledgment step of an alert with a host name.
C9_CallStep ==
    (cpc = "ack" /\ CoordStep /\ checkmk_info.host_name # "") =>
        /\ ack_result'.alert = checkmk_info.id
        /\ ack_result'.result # "none"

C9_CallAlwaysStep ==
    (cpc = "ack" /\ CoordStep) =>
        /\ ack_result'.alert = checkmk_info.id
        /\ ack_result'.result # "none"

C10_NotForAcknowledged ==
    /\ cpc \in {"ack", "mark", "persist"} => checkmk_info.id \notin acked_at_pass_start
    /\ cpc \in {"ack", "mark"} => checkmk_info.id \notin Acknowledged

\* The lookup that resolves to an acknowledged alert.
C10_AcknowledgedStep ==
    (/\ Resolving
     /\ CoordStep
     /\ LinkedAlerts(pass_list[idx].id) # {}
     /\ LinkedAlerts(pass_list[idx].id) \subseteq Acknowledged) =>
        /\ store' = store
        /\ ack_result' = ack_result
        /\ cpc' \in {"next", "dead"}

\* No step clears a flag.
C10_FlagKept == Acknowledged \subseteq {a \in DOMAIN t_checkmk_problems' :
                                         t_checkmk_problems'[a].acknowledged = 1}

\* C10: an acknowledged flag is never cleared; a pass is at the
\* acknowledgment or at the writes that follow it only for an alert whose
\* flag was not set when the pass began, and at the call or the flag update
\* only while the flag is not set; and a pass that looks up an acknowledged
\* alert changes no table and issues no call.
C10_AcknowledgedTerminal ==
    []C10_NotForAcknowledged /\ [][C10_AcknowledgedStep /\ C10_FlagKept]_vars

\* A pass skipped an alert acknowledged before it began, its ticket now "OPEN".
C10_Witness ==
    /\ cpc = "next"
    /\ last = Log(idx - 1, "already")
    /\ acked_at_pass_start # {}
    /\ sdp_requests[1].status = "OPEN"

\* The live lists show the target of the alert in state 0: the host of a
\* host alert, the service of that host and description of a service alert.
TargetOk(info) ==
    IF info.service_check_command # ""
    THEN \E k \in DOMAIN cmk_services :
            /\ cmk_services[k].host_name = info.host_name
            /\ cmk_services[k].description = info.service_description
            /\ cmk_services[k].state = 0
    ELSE \E k \in DOMAIN cmk_hosts :
            cmk_hosts[k].name = info.host_name /\ cmk_hosts[k].state = 0

C11_OkTargetStep ==
    (cpc = "ack" /\ CoordStep /\ TargetOk(checkmk_info)) =>
        /\ ~ack_result'.sent
        /\ ack_result'.result = "ok"
        /\ cpc' = "mark"

\* C11 (as claimed): when the live host or service list shows the target of
\* the alert in state 0 (UP, OK), the acknowledgment step sends no request to
\* Checkmk, holds a success result and goes on to mark the alert acknowledged.
C11_SyntheticSuccess == [][C11_OkTargetStep]_vars

\* The status the store holds for the ticket with this remote id ("" without a row).
StoredStatus(tbl, ticket_id) ==
    IF RowsWith(tbl, "request_id", ticket_id) = {} THEN ""
    ELSE tbl[CHOOSE r \in RowsWith(tbl, "request_id", ticket_id) : TRUE].status

\* The two writes follow a successful acknowledgment of the alert at hand.
C12_WritesAfterSuccess ==
    cpc \in {"mark", "persist"} =>
        /\ ack_result.result = "ok"
        /\ ack_result.alert = checkmk_info.id

\* A successful acknowledgment goes on to the flag update.
C12_SuccessStep ==
    (cpc = "ack" /\ CoordStep /\ ack_result'.result = "ok") => cpc' = "mark"

\* The flag update, failed or not, is followed by the status write.
C12_MarkStep ==
    (cpc = "mark" /\ CoordStep) =>
        /\ cpc' = "persist"
        /\ idx' = idx /\ pass_list' = pass_list
        /\ last'.ev \in {"mark_ok", "mark_failed"}
        /\ last'.ev = "mark_ok" => t_checkmk_problems'[checkmk_info.id].acknowledged = 1
        /\ \A a \in DOMAIN t_checkmk_problems :
              t_checkmk_problems'[a].acknowledged >= t_checkmk_problems[a].acknowledged
        /\ t_servicedesk_requests' = t_servicedesk_requests

\* The status write, failed or not, moves the pass to its next ticket.
C12_PersistStep ==
    (cpc = "persist" /\ CoordStep) =>
        /\ cpc' = "next"
        /\ idx' = idx + 1 /\ pass_list' = pass_list
        /\ last'.ev \in {"status_ok", "status_failed"}
        /\ last'.ev = "status_ok" =>
              StoredStatus(t_servicedesk_requests', pass_list[idx].id) = pass_list[idx].status
        /\ t_checkmk_problems' = t_checkmk_problems

\* C12: after a successful acknowledgment the pass updates the alert's flag
\* and then writes the ticket's status; the flag update, failed or not, is
\* logged, clears no flag and is followed by the status write; the status
\* write, failed or not, is logged, leaves the alert table alone and moves
\* the pass to the next ticket of its list.
C12_IndependentWrites ==
    []C12_WritesAfterSuccess /\ [][C12_SuccessStep /\ C12_MarkStep /\ C12_PersistStep]_vars

\* The flag update failed, the status write that followed it succeeded and
\* the pass is at its next ticket.
C12_Witness ==
    /\ cpc = "next"
    /\ last = Log(idx - 1, "status_ok")
    /\ ack_result.result = "ok"
    /\ ack_result.alert \notin Acknowledged
    /\ StoredStatus(t_servicedesk_requests, pass_list[idx - 1].id) = "Closed"

\* An alert is acknowledged while the store holds another status for its
\* ticket than the one polled.
C13_StatusBehind ==
    \E k \in DOMAIN sdp_requests :
        /\ LinkedAlerts(sdp_requests[k].id) \cap Acknowledged # {}
        /\ StoredStatus(t_servicedesk_requests, sdp_requests[k].id) # sdp_requests[k].status

\* The pass has just acknowledged an alert and set its flag, and the status
\* write that followed has failed.
C13_PartialFailure ==
    /\ last.ev = "status_failed"
    /\ ack_result.alert \in Acknowledged
    /\ C13_StatusBehind

\* C13 (as claimed): where every store write but the status write of the
\* loop succeeds, a pass that acknowledged an alert and set its flag but
\* failed to write the ticket's status is followed by a state in which the
\* stored status of the ticket equals the polled one.
C13_SelfHeals == [](C13_PartialFailure => <>~C13_StatusBehind)

\* The store holds a row for a polled ticket with another status than the
\* one polled.
C14_RecordBehind ==
    \E k \in DOMAIN sdp_requests :
        /\ RowsWith(t_servicedesk_requests, "request_id", sdp_requests[k].id) # {}
        /\ StoredStatus(t_servicedesk_requests, sdp_requests[k].id) # sdp_requests[k].status

\* No step removes a row of the ticket table or changes its remote id.
C14_RowsKept ==
    /\ Len(t_servicedesk_requests') >= Len(t_servicedesk_requests)
    /\ \A r \in DOMAIN t_servicedesk_requests :
          t_servicedesk_requests'[r].request_id = t_servicedesk_requests[r].request_id

\* C14 (as claimed): no row of the ticket table is ever removed, and a state
\* in which the polled status of a ticket differs from the status of its
\* row, the linked alert acknowledged or not, is followed by a state in
\* which the row holds the polled status.
C14_StatusRefreshed == [][C14_RowsKept]_vars /\ [](C14_RecordBehind => <>~C14_RecordBehind)

\* C15: on every alert table the store gets into and for every key, a key
\* of no row included, update_checkmk_acknowledged applied twice gives the
\* table it gives applied once, and applied once it changes nothing but the
\* acknowledged column of the row with that key, which it sets to 1.
C15_MarkIdempotent ==
    \A id \in 0..(Len(t_checkmk_problems) + 1) :
        LET once == update_checkmk_acknowledged(t_checkmk_problems, id)
            twice == update_checkmk_acknowledged(once, id)
        IN  /\ twice = once
            /\ Len(once) = Len(t_checkmk_problems)
            /\ \A k \in DOMAIN once :
                  once[k] = IF k = id THEN [t_checkmk_problems[k] EXCEPT !.acknowledged = 1]
                            ELSE t_checkmk_problems[k]

\* The loop has set the flag of an alert, and setting it again leaves the
\* table as it is.
C15_Witness ==
    /\ last.ev = "mark_ok"
    /\ ack_result.alert \in Acknowledged
    /\ update_checkmk_acknowledged(t_checkmk_problems, ack_result.alert) = t_checkmk_problems

\* A row is inserted with the flag not set.
C16_StartsFalse ==
    \A a \in DOMAIN t_checkmk_problems' \ DOMAIN t_checkmk_problems :
        t_checkmk_problems'[a].acknowledged = 0

\* A flag is set only by the flag update that follows a successful
\* acknowledgment of that alert.
C16_SetOnSuccessPath ==
    \A a \in DOMAIN t_checkmk_problems :
        (t_checkmk_problems[a].acknowledged = 0 /\ t_checkmk_problems'[a].acknowledged = 1) =>
            /\ cpc = "mark" /\ cpc' = "persist"
            /\ ack_result.result = "ok"
            /\ a = checkmk_info.id /\ a = ack_result.alert

\* A flag that is set stays set.
C16_NeverReset ==
    \A a \in DOMAIN t_checkmk_problems :
        t_checkmk_problems[a].acknowledged = 1 =>
            a \in DOMAIN t_checkmk_problems' /\ t_checkmk_problems'[a].acknowledged = 1

\* C16: every alert row is inserted with acknowledged = 0; the flag of a row
\* goes from 0 to 1 only in the flag update of the loop after a successful
\* acknowledgment of that alert; and no step, an upsert of the same problem
\* identifier included, takes a flag from 1 back to 0.
C16_FlipsOnce == [][C16_StartsFalse /\ C16_SetOnSuccessPath /\ C16_NeverReset]_vars

\* A handler is past the upsert of a redelivered notification whose state
\* went into the row of an acknowledged alert.
C16_Witness ==
    /\ pc[1] = "check"
    /\ cmk_db_id[1] \in Acknowledged
    /\ t_checkmk_problems[cmk_db_id[1]].state = payload[1].state
    /\ t_checkmk_problems[cmk_db_id[1]].raw_payload.state # payload[1].state

\* One row per problem identifier.
C17_OneRowPerId ==
    \A a, b \in DOMAIN t_checkmk_problems :
        t_checkmk_problems[a].problem_id = t_checkmk_problems[b].problem_id => a = b

\* Handler i gets the key of its upsert in this step.
C17_Upserts(i) == pc[i] = "idle" /\ pc'[i] = "check"

\* The upsert adds a row only for an unknown identifier and returns the key
\* of the row of its identifier.
C17_KeyStep ==
    \A i \in Handlers :
        C17_Upserts(i) =>
            LET known == RowsWith(t_checkmk_problems, "problem_id", ProblemId(payload'[i]))
            IN  /\ known # {} => (cmk_db_id'[i] \in known
                                  /\ Len(t_checkmk_problems') = Len(t_checkmk_problems))
                /\ t_checkmk_problems'[cmk_db_id'[i]].problem_id = ProblemId(payload'[i])

\* After the upsert the row holds the state and the raw payload of the call.
C17_LatestStep ==
    \A i \in Handlers :
        C17_Upserts(i) =>
            /\ t_checkmk_problems'[cmk_db_id'[i]].state = payload'[i].state
            /\ t_checkmk_problems'[cmk_db_id'[i]].raw_payload = payload'[i]

\* C17 (as claimed): under any interleaving of upserts the alert table holds
\* one row per problem identifier, an upsert of a known identifier returns
\* the key of its row and adds none, and after an upsert the row holds the
\* state and the raw payload of that call.
C17_UpsertInPlace == []C17_OneRowPerId /\ [][C17_KeyStep /\ C17_LatestStep]_vars

\* Every link names a row of the alert table and a row of the ticket table.
C18_LinksReferRows ==
    \A l \in DOMAIN t_problem_request_links :
        /\ t_problem_request_links[l].alert_id \in DOMAIN t_checkmk_problems
        /\ t_problem_request_links[l].request_id \in DOMAIN t_servicedesk_requests

\* The link table changes only by the insert of a handler that holds the id
\* of the ticket it created, the key of that ticket's row and the key of
\* its alert row.
C18_InsertStep ==
    t_problem_request_links' # t_problem_request_links =>
        \E i \in Handlers :
            /\ pc[i] = "link" /\ pc'[i] = "idle"
            /\ sdp_request[i] # 0
            /\ sdp_db_id[i] \in DOMAIN t_servicedesk_requests
            /\ t_servicedesk_requests[sdp_db_id[i]].request_id = sdp_request[i]
            /\ cmk_db_id[i] \in DOMAIN t_checkmk_problems
            /\ t_problem_request_links' =
                 Append(t_problem_request_links,
                        [alert_id |-> cmk_db_id[i], request_id |-> sdp_db_id[i]])

\* No step changes or removes a link.
C18_LinksKept ==
    \A l \in DOMAIN t_problem_request_links :
        /\ l \in DOMAIN t_problem_request_links'
        /\ t_problem_request_links'[l] = t_problem_request_links[l]

\* C18: the link table changes only when a handler that holds the id the
\* ticket creation returned and the key of that ticket's persisted row
\* appends the link of its alert row to that row; every link names an
\* existing alert row and an existing ticket row; and no step of ingestion,
\* polling or the loop changes or removes a link.
C18_LinkLifecycle == []C18_LinksReferRows /\ [][C18_InsertStep /\ C18_LinksKept]_vars

\* A link has outlived the acknowledgment of its alert and the status write
\* of its ticket.
C18_Witness ==
    /\ Len(t_problem_request_links) = 1
    /\ t_problem_request_links[1].alert_id \in Acknowledged
    /\ t_servicedesk_requests[t_problem_request_links[1].request_id].status = "Closed"

\* The ticket creation failed: the collaborator raised, or the ticket system
\* answered with a non-success status.
CreationFailed(answer) ==
    answer # "" /\ (create_request_raises(answer) # "" \/ ~ResponseSuccess(answer))

\* No handler is past a failed creation, and no ingest whose creation failed
\* was answered with HTTP 200.
C19_NoneAfterFailure ==
    /\ \A i \in Handlers : ~CreationFailed(sdp_answer[i])
    /\ CreationFailed(done.sdp_answer) =>
          done.response.status_code # 200 /\ done.response # Created

\* The step in which the creation of handler i fails ends the ingest with
\* an answer that is not 200 and changes no table.
C19_FailureStep ==
    \A i \in Handlers :
        (pc[i] = "create" /\ pc'[i] = "idle" /\ CreationFailed(done'.sdp_answer)) =>
            /\ done'.response.status_code # 200
            /\ store' = store

\* C19 (as claimed): an ingest whose ticket creation fails, because the
\* collaborator raises or the ticket system answers with a non-success
\* status, ends in that step with an HTTP status other than 200, is never
\* answered with "Request successfully created.", and writes no ticket row
\* and no link.
C19_FailureNotSuccess == []C19_NoneAfterFailure /\ [][C19_FailureStep]_vars

\* The step in which the creation call of handler i finds the ticket system
\* unreachable.
C20_UnreachableStep ==
    \A i \in Handlers :
        (pc[i] = "create" /\ pc'[i] # "create"
         /\ (IF pc'[i] = "idle" THEN done'.sdp_answer ELSE sdp_answer'[i]) = "unreachable") =>
            /\ pc'[i] = "idle"
            /\ done'.response.status_code \in {502, 503}
            /\ sdp_tickets' = sdp_tickets
            /\ store' = store
            /\ LinkedRequests(t_problem_request_links, cmk_db_id[i]) = {} =>
                  check_if_request_exists(t_problem_request_links', cmk_db_id[i], TRUE) = 0

\* C20 (as claimed): an ingest whose creation call cannot reach the ticket
\* system ends in that step without a second call, is answered with status
\* 502 or 503, and leaves the tables as they are: the alert row stays
\* without a link, so that the existence check of a redelivery finds none.
C20_UnreachableSurfaced == [][C20_UnreachableStep]_vars

\* The ticket system itself rejected the creation request as invalid: it
\* answered with a non-success status and an error body.
RemoteRejections == {"rejected", "rejected_with_request"}

\* The step in which the creation call of handler i is rejected by the
\* ticket system.
C21_RejectionStep ==
    \A i \in Handlers :
        (pc[i] = "create" /\ pc'[i] # "create"
         /\ (IF pc'[i] = "idle" THEN done'.sdp_answer ELSE sdp_answer'[i])
               \in RemoteRejections) =>
            /\ pc'[i] = "idle"
            /\ done'.response.status_code = 422
            /\ sdp_tickets' = sdp_tickets
            /\ store' = store

\* C21 (as claimed): an ingest whose creation request the ticket system
\* rejects as invalid ends in that step without a second call, is answered
\* with status 422, and writes no ticket row and no link.
C21_RejectionIs422 == [][C21_RejectionStep]_vars

\* The coordinator step that begins a pass: it takes the polled list and
\* logs the start.
C22_Starts == CoordStep /\ cpc' = "next" /\ last' = Log(0, "start") /\ idx' = 1

\* A pass begins out of the sleep only, with no list of an earlier pass
\* left to process.
C22_StartStep == C22_Starts => cpc = "sleep" /\ pass_list = <<>>

\* While a pass is under way its list is fixed and its position moves
\* forward by at most one ticket per step; the pass goes to sleep only
\* once the position is past the last ticket of the list.
C22_PassStep ==
    (CoordStep /\ cpc # "sleep") =>
        IF cpc' = "sleep"
        THEN cpc = "next" /\ idx > Len(pass_list)
        ELSE pass_list' = pass_list /\ idx' \in {idx, idx + 1}

\* C22 (as claimed): at most one reconciliation pass is in progress; a pass
\* starts only out of the sleep that follows the previous pass, and the
\* previous pass went to sleep only after every ticket of its list was
\* processed or skipped.
C22_NoOverlap == [][C22_StartStep /\ C22_PassStep]_vars

\* A later pass is under way on a non-empty list: an earlier pass already
\* acknowledged an alert and went to sleep.
C22_Witness ==
    /\ cpc = "next"
    /\ pass_list # <<>>
    /\ idx = Len(pass_list)
    /\ acked_at_pass_start # {}

\* The first polling task of resource p is at position `at`.
TaskAt(p, at) == poll_tasks[p] # <<>> /\ poll_tasks[p][1].at = at

\* C24 (as claimed): in each polling loop every poll attempt comes to its
\* end at the sleep of the loop, whatever the attempt returned and however
\* many attempts failed before it, and every sleep is followed by another
\* poll attempt.
C24_NeverStops ==
    \A p \in Pollers :
        /\ TaskAt(p, "poll") ~> TaskAt(p, "sleep")
        /\ TaskAt(p, "sleep") ~> TaskAt(p, "poll")

\* Every loop has slept and is about to poll again, one of them after a
\* run of failed polls that went past the retry ceiling.
C24_Witness ==
    /\ \A p \in Pollers : TaskAt(p, "poll") /\ poll_tasks[p][1].wait > 0
    /\ \E p \in Pollers : poll_tasks[p][1].fails > Retries

\* The polls of resource p that are in flight: the tasks that await the
\* answer to their call.
InFlight(p) ==
    {k \in DOMAIN poll_tasks[p] : poll_tasks[p][k].at \in {"poll", "fetch"}}

\* C23 (as claimed): whatever start() calls were made, each polled resource
\* has at most one live polling task, and so at most one poll in flight.
C23_OnePollInFlight ==
    \A p \in Pollers : Len(poll_tasks[p]) <= 1 /\ Cardinality(InFlight(p)) <= 1

\* C27 (as claimed): no polling task is alive while the HTTP session it
\* polls through is closed.
C27_NoTaskOnClosedSession ==
    \A p \in Pollers \ {"problems"} :
        ~session_open[Owner(p)] => poll_tasks[p] = <<>>

RECURSIVE Pow2(_)
Pow2(k) == IF k = 0 THEN 1 ELSE 2 * Pow2(k - 1)

\* The tasks of resource p that are asleep between two attempts.
Asleep(p) == {k \in DOMAIN poll_tasks[p] : poll_tasks[p][k].at = "sleep"}

\* C25 (as claimed): a polling task that sleeps after k consecutive failed
\* polls, k below the retry ceiling, sleeps for the base interval times
\* 2^k; one that sleeps after the failure that reached the ceiling sleeps
\* for the base interval.
C25_ExponentialBackoff ==
    \A p \in Pollers : \A k \in Asleep(p) :
        LET t == poll_tasks[p][k]
        IN  /\ t.fails < Retries => t.wait = Timeout(p) * Pow2(t.fails)
            /\ t.fails = Retries => t.wait = Timeout(p)

\* Task k of resource p ends an attempt in this step.
C26_Ends(p, k) ==
    /\ poll_tasks[p][k].at \in {"poll", "fetch"}
    /\ poll_tasks'[p][k].at = "sleep"

\* A failed attempt within a run below the ceiling is followed by a wait
\* that is not shorter than the wait before the attempt; the attempt that
\* takes the counter to the ceiling resets it; a successful attempt leaves
\* the counter at zero and is followed by the base interval.
C26_AttemptStep ==
    \A p \in Pollers : \A k \in DOMAIN poll_tasks[p] :
        C26_Ends(p, k) =>
            LET t == poll_tasks[p][k]
                u == poll_tasks'[p][k]
            IN  /\ (u.fails = t.fails + 1 /\ u.fails < Retries) => u.wait >= t.wait
                /\ (u.fails = t.fails + 1 /\ t.retry_count + 1 >= Retries) =>
                      u.retry_count = 0
                /\ u.fails = 0 => u.retry_count = 0 /\ u.wait = Timeout(p)

\* The failure counter of a task that awaits never stands at the ceiling.
C26_BelowCeiling ==
    \A p \in Pollers : \A k \in DOMAIN poll_tasks[p] :
        poll_tasks[p][k].retry_count < Retries

\* C26 (as claimed): within a run of consecutive failed polls below the
\* ceiling the wait before the next attempt never shrinks; the failure
\* counter is reset to zero when it reaches the ceiling; after a successful
\* poll the counter is zero and the wait is the base interval.
C26_MonotoneAndReset == []C26_BelowCeiling /\ [][C26_AttemptStep]_vars

\* The host loop sleeps after the failure that reached the ceiling, with
\* its counter reset, while the ticket loop sleeps after a successful poll
\* that followed failed ones.
C26_Witness ==
    /\ TaskAt("hosts", "sleep")
    /\ poll_tasks["hosts"][1].fails = Retries
    /\ poll_tasks["hosts"][1].retry_count = 0
    /\ poll_tasks["hosts"][1].wait = Timeout("hosts")
    /\ TaskAt("requests", "sleep")
    /\ poll_tasks["requests"][1].fails = 0
    /\ sdp_requests # <<>>

\* The step of refresh_cache from its query to its fetch, and the step that
\* ends a refresh, by the assignment or by an exception.
C28_Queries == TaskAt("problems", "poll") /\ poll_tasks'["problems"][1].at = "fetch"
C28_Fails ==
    /\ poll_tasks["problems"] # <<>>
    /\ poll_tasks'["problems"][1].fails = poll_tasks["problems"][1].fails + 1

\* The query selects the whole join and leaves the cache alone; the cache
\* changes only in the step that ends the fetch, and then to the whole
\* selection; a refresh that fails leaves the cache alone.
C28_RefreshStep ==
    /\ C28_Queries => cache_rows' = StoreJoin /\ problem_cache' = problem_cache
    /\ problem_cache' # problem_cache =>
          TaskAt("problems", "fetch") /\ problem_cache' = cache_rows
    /\ C28_Fails => problem_cache' = problem_cache

\* The cache holds one entry for each link of a prefix of the link table,
\* with the ticket and the problem id of that link: it is the join as it
\* was when fewer links existed, not a part of it.
C28_WholeSnapshot ==
    /\ Len(problem_cache) <= Len(StoreJoin)
    /\ \A n \in 1..Len(problem_cache) :
          /\ problem_cache[n].servicedesk_request_id = StoreJoin[n].servicedesk_request_id
          /\ problem_cache[n].checkmk_problem_id = StoreJoin[n].checkmk_problem_id
          /\ problem_cache[n].checkmk_type = StoreJoin[n].checkmk_type

\* C28 (as claimed): at every await point of a refresh the problem cache is
\* the complete previous snapshot of the store join or the complete new
\* one, never a partly built list; a refresh that fails leaves the previous
\* snapshot in place.
C28_AtomicSwap == []C28_WholeSnapshot /\ [][C28_RefreshStep]_vars

\* A refresh awaits its fetch with a new selection while the cache still
\* holds the previous, different snapshot.
C28_Witness ==
    /\ TaskAt("problems", "fetch")
    /\ problem_cache # <<>>
    /\ cache_rows # <<>>
    /\ cache_rows # problem_cache

\* The existence check of handler i ends in "Request already exists."
\* exactly when the link table holds a link of the alert, and no step of a
\* handler touches the cache.
C29_IngestStep ==
    /\ \A i \in Handlers :
          (pc[i] = "check" /\ pc'[i] # "check") =>
              /\ (pc'[i] = "idle" /\ done'.response = AlreadyExists)
                    <=> LinkedRequests(t_problem_request_links, cmk_db_id[i]) # {}
              /\ pc'[i] = "create"
                    <=> LinkedRequests(t_problem_request_links, cmk_db_id[i]) = {}
    /\ handler_vars' # handler_vars =>
          problem_cache' = problem_cache /\ cache_rows' = cache_rows

\* C29 (as claimed): whatever the problem cache holds, the existence check
\* of an ingest call decides between creating a ticket and "Request already
\* exists." by the link table alone, and ingestion never changes the cache.
C29_CacheNeverDecides == [][C29_IngestStep]_vars

\* A redelivery was answered "Request already exists." while the cache,
\* not yet refreshed, misses the problem id.
C29_Witness ==
    /\ done.response = AlreadyExists
    /\ ~exists(problem_cache, done.problem_id)
    /\ t_problem_request_links # <<>>
    /\ poll_tasks["problems"] # <<>>

\* The live lists hold an entry for the target of the alert: the service
\* of that description on that host, or the host of that name.
TargetListed(info) ==
    IF info.service_check_command # ""
    THEN \E k \in DOMAIN cmk_services :
            /\ cmk_services[k].host_name = info.host_name
            /\ cmk_services[k].description = info.service_description
    ELSE \E k \in DOMAIN cmk_hosts : cmk_hosts[k].name = info.host_name

\* The acknowledgment step of an alert with a host name sends no request
\* only if the live entry of its own target is in state 0, and sends the
\* request when the target has no live entry.
C30_SkipStep ==
    (cpc = "ack" /\ CoordStep /\ checkmk_info.host_name # "") =>
        /\ ~ack_result'.sent => TargetOk(checkmk_info)
        /\ ~TargetListed(checkmk_info) => ack_result'.sent

\* C30 (as claimed): the acknowledgment call is skipped only when the live
\* entry of the alert's own service on its own host (or of its own host) is
\* in state 0; an entry of another host never causes the skip, and an alert
\* whose target has no live entry is acknowledged by a real call.
C30_OwnTargetOnly == [][C30_SkipStep]_vars

\* C31 (as claimed): in the loop of the problem cache the failure counter
\* stands at k after k consecutive failed refreshes, k below the ceiling:
\* only reaching the ceiling or a successful refresh takes it back to zero.
C31_CacheCounterCounts ==
    \A k \in DOMAIN poll_tasks["problems"] :
        LET t == poll_tasks["problems"][k]
        IN  t.fails < Retries => t.retry_count = t.fails

\* The poller binds a new list and the list of the running pass stays as
\* it is; a pass takes the list that is current when it starts; a decision
\* of the pass is logged for the ticket at its position in its own list
\* and follows that ticket's status and id; the position moves on by one
\* ticket at a time.
C32_ListStep ==
    /\ sdp_requests' # sdp_requests =>
          pass_list' = pass_list /\ idx' = idx /\ cpc' = cpc
    /\ C22_Starts => pass_list' = sdp_requests
    /\ (CoordStep /\ cpc = "next" /\ idx <= Len(pass_list)) =>
          /\ last'.k = idx
          /\ last'.ev = "open" <=> IsOpenOrAbsent(pass_list[idx].status)
          /\ last'.ev = "noid" =>
                ~IsOpenOrAbsent(pass_list[idx].status) /\ pass_list[idx].id = 0
          /\ last'.ev \notin {"open", "noid"} => pass_list[idx].id # 0
    /\ (CoordStep /\ cpc # "sleep" /\ cpc' # "sleep") =>
          pass_list' = pass_list /\ idx' \in {idx, idx + 1}

\* C32 (as claimed): a pass iterates the list that was current when it
\* started; when the poller replaces SDP.requests while the pass is
\* suspended, the pass goes on through the tickets of the old list, one
\* position at a time, and the new list is taken by the next pass.
C32_StableList == [][C32_ListStep]_vars

\* A pass is suspended in the middle of a ticket while SDP.requests
\* already holds another, newer list.
C32_Witness ==
    /\ cpc \in {"ack", "mark", "persist"}
    /\ pass_list # <<>>
    /\ sdp_requests # <<>>
    /\ sdp_requests # pass_list

\* An attempt that is counted as a failure leaves the list as it is; the
\* list changes only to a complete, non-empty list, in an attempt that is
\* counted as a success.
C33_PollStep ==
    /\ (poll_tasks["requests"] # <<>>
        /\ poll_tasks'["requests"][1].fails = poll_tasks["requests"][1].fails + 1) =>
           sdp_requests' = sdp_requests
    /\ (poll_tasks["hosts"] # <<>>
        /\ poll_tasks'["hosts"][1].fails = poll_tasks["hosts"][1].fails + 1) =>
           cmk_hosts' = cmk_hosts
    /\ (poll_tasks["services"] # <<>>
        /\ poll_tasks'["services"][1].fails = poll_tasks["services"][1].fails + 1) =>
           cmk_services' = cmk_services
    /\ sdp_requests' # sdp_requests =>
          /\ sdp_requests' \in PolledLists \ {<<>>}
          /\ poll_tasks'["requests"][1].fails = 0
    /\ cmk_hosts' # cmk_hosts =>
          /\ cmk_hosts' \in LiveHosts
          /\ poll_tasks'["hosts"][1].fails = 0
    /\ cmk_services' # cmk_services =>
          /\ cmk_services' \in LiveServices
          /\ poll_tasks'["services"][1].fails = 0

\* C33 (as claimed): a poll of the ticket, host or service list in which a
\* call raises or is answered with a non-success response, or which
\* returns an empty list, is counted as a failure and leaves the in-memory
\* list as it is; the list is replaced only by the non-empty result of a
\* poll that succeeded.
C33_KeepsLastGood == [][C33_PollStep]_vars

\* What a step of the reconciliation pass does to the tables and lists: no
\* row is added to a table; an alert row changes in its flag only, and to
\* 1; a ticket row changes in its status only, written at the persist
\* position for a ticket that has a row and a link; links, the polled
\* lists, the ticket system and the problem cache stay as they are.
C34_TickStep ==
    CoordStep =>
        /\ Len(t_checkmk_problems') = Len(t_checkmk_problems)
        /\ \A k \in 1..Len(t_checkmk_problems) :
              \/ t_checkmk_problems'[k] = t_checkmk_problems[k]
              \/ t_checkmk_problems'[k] =
                    [t_checkmk_problems[k] EXCEPT !.acknowledged = 1]
        /\ Len(t_servicedesk_requests') = Len(t_servicedesk_requests)
        /\ \A k \in 1..Len(t_servicedesk_requests) :
              t_servicedesk_requests'[k] =
                 [t_servicedesk_requests[k] EXCEPT
                     !.status = t_servicedesk_requests'[k].status]
        /\ cpc = "persist" =>
              /\ RowsWith(t_servicedesk_requests, "request_id", pass_list[idx].id) # {}
              /\ JoinRows(pass_list[idx].id) # {}
        /\ t_servicedesk_requests' # t_servicedesk_requests => cpc = "persist"
        /\ t_problem_request_links' = t_problem_request_links
        /\ sdp_tickets' = sdp_tickets
        /\ sdp_requests' = sdp_requests
        /\ live' = live
        /\ problem_cache' = problem_cache /\ cache_rows' = cache_rows

\* C34 (as claimed): a reconciliation tick adds no alert row, no ticket row
\* and no link; it sets acknowledged flags and rewrites the status of
\* tickets that have a row and a link, and leaves the problem cache and the
\* in-memory ticket, host and service lists as they are.
C34_TickOnlyFlips == [][C34_TickStep]_vars

\* A pass has just rewritten the status of a linked ticket whose alert it
\* flagged, and the tables hold one row each.
C34_Witness ==
    /\ last.ev = "status_ok"
    /\ cpc = "next"
    /\ Len(t_checkmk_problems) = 1
    /\ Len(t_servicedesk_requests) = 1
    /\ Len(t_problem_request_links) = 1
    /\ t_checkmk_problems[1].acknowledged = 1
    /\ t_servicedesk_requests[1].status # "Open"

\* The links whose alert row carries problem id `key`.
LinksOfProblem(key) ==
    {l \in 1..Len(t_problem_request_links) :
        /\ Joined(t_problem_request_links[l])
        /\ t_checkmk_problems[t_problem_request_links[l].alert_id].problem_id = key}

\* Every cache entry has a link in the store whose alert row carries its
\* problem id and whose ticket row carries its ticket id; a hit of
\* ProblemCache.exists has a link behind it.
C35_Backed ==
    /\ \A n \in 1..Len(problem_cache) :
          \E l \in LinksOfProblem(ToStr(problem_cache[n].checkmk_problem_id)) :
              t_servicedesk_requests[t_problem_request_links[l].request_id].request_id
                 = problem_cache[n].servicedesk_request_id
    /\ \A key \in {"1234", RecoverySentinel} :
          exists(problem_cache, key) => LinksOfProblem(key) # {}
    /\ (poll_tasks["problems"] = <<>> \/ t_problem_request_links = <<>>) =>
          problem_cache = <<>>

\* The cache gets entries only in the step that ends a successful refresh,
\* and then the rows that refresh selected.
C35_GrowStep ==
    Len(problem_cache') > Len(problem_cache) =>
        /\ TaskAt("problems", "fetch")
        /\ poll_tasks'["problems"][1].at = "sleep"
        /\ poll_tasks'["problems"][1].fails = 0
        /\ problem_cache' = cache_rows

\* C35 (as claimed): every entry of the problem cache corresponds to a link
\* of the store with its alert and ticket rows, so a hit of exists() implies
\* a durable link for that problem id; the cache is empty before the first
\* successful refresh and gets entries only by a refresh that follows the
\* ingestion of a link.
C35_CacheBehindStore == []C35_Backed /\ [][C35_GrowStep]_vars

\* The cache answers exists("1234") with true after a refresh, the link
\* being in the store, and the loop sleeps.
C35_Witness ==
    /\ exists(problem_cache, "1234")
    /\ LinksOfProblem("1234") # {}
    /\ TaskAt("problems", "sleep")
    /\ pc[1] = "idle"

\* No CancelledError has left a close(), and a resource that close() has
\* closed has no task left that is not ended.
C36_ClosedAfterTasks ==
    \A c \in Clients :
        /\ close_pc[c] # "raised"
        /\ close_pc[c] = "closed" <=> ~session_open[c]
        /\ ~session_open[c] =>
              \A t \in Tracked(c) : poll_tasks[t[1]][t[2]].at = "done"

\* close() cancels every task it tracks in its first step, and closes its
\* resource in a step of its own, out of the wait for the tasks, when each
\* of them has ended.
C36_CloseStep ==
    \A c \in Clients :
        /\ (close_pc[c] = "idle" /\ close_pc'[c] # "idle") =>
              /\ close_pc'[c] = "awaiting"
              /\ session_open'[c]
              /\ \A t \in Tracked(c) :
                    poll_tasks'[t[1]][t[2]].at \in {"cancelled", "done"}
        /\ (session_open[c] /\ ~session_open'[c]) =>
              /\ close_pc[c] = "awaiting"
              /\ \A t \in Tracked(c) : poll_tasks[t[1]][t[2]].at = "done"

\* C36 (as claimed): close() of a client cancels every background task it
\* tracks and awaits the end of each before it closes the HTTP session (for
\* the store: the connection pool), and the CancelledError of a cancelled
\* task does not leave close().
C36_TasksBeforeResources == []C36_ClosedAfterTasks /\ [][C36_CloseStep]_vars

\* Every client was closed after its tasks ended, the ticket client with
\* the two tasks that two start() calls left it.
C36_Witness ==
    /\ \A c \in Clients : close_pc[c] = "closed" /\ ~session_open[c]
    /\ Len(poll_tasks["requests"]) = 2
    /\ \A p \in Pollers : poll_tasks[p] # <<>>
    /\ \A p \in Pollers : \A k \in DOMAIN poll_tasks[p] : poll_tasks[p][k].at = "done"

====
